---- MODULE Spec2Model ----
(***************************************************************************)
(* A model of the pi-rtk-rewrite extension (extensions/rtk-rewrite.ts).    *)
(*                                                                         *)
(* Command strings are TLA+ strings.  TLC implements Len, \o and SubSeq on *)
(* strings, so a character is the one-character string SubSeq(s, i, i) and *)
(* every scanner and regular expression of the source is an operator over  *)
(* 1-based positions.  A position result of 0 means "no match".            *)
(***************************************************************************)
EXTENDS Integers, Sequences, FiniteSets, TLC

\* ------------------------------------------------------------------------
\* JavaScript string primitives
\* ------------------------------------------------------------------------

\* cmd[i-1] of the source (1-based here); "" outside the string, where the
\* source reads undefined.
Ch(s, i) == IF i >= 1 /\ i <= Len(s) THEN SubSeq(s, i, i) ELSE ""

\* cmd.slice(i-1): the suffix that starts at 1-based position i.
From(s, i) == IF i > Len(s) THEN "" ELSE SubSeq(s, IF i < 1 THEN 1 ELSE i, Len(s))

\* cmd.slice(0, n): the first n characters.
Upto(s, n) == IF n <= 0 THEN "" ELSE SubSeq(s, 1, IF n > Len(s) THEN Len(s) ELSE n)

\* cmd.slice(i-1, j-1): the characters at 1-based positions i .. j-1.
Slice(s, i, j) == IF j <= i THEN "" ELSE SubSeq(s, i, j - 1)

\* The literal p stands at position i of s.
HasAt(s, p, i) == i >= 1 /\ i + Len(p) - 1 <= Len(s) /\ SubSeq(s, i, i + Len(p) - 1) = p

\* String.prototype.startsWith / endsWith / includes.
startsWithStr(s, p) == HasAt(s, p, 1)

endsWithStr(s, p) == Len(p) <= Len(s) /\ HasAt(s, p, Len(s) - Len(p) + 1)

includes(s, p) == \E i \in 1..(Len(s) + 1) : HasAt(s, p, i)

\* The regular-expression class \s (the members a command string can hold).
IsSpace(c) == c \in {" ", "\t", "\n", "\r", "\f"}

\* The class \S: a character that is not white space.
IsNonSpace(c) == c # "" /\ ~IsSpace(c)

\* The class \d.
IsDigit(c) == c \in {"0", "1", "2", "3", "4", "5", "6", "7", "8", "9"}

\* The class [A-Za-z].
IsAlpha(c) ==
    c \in {"a", "b", "c", "d", "e", "f", "g", "h", "i", "j", "k", "l", "m",
           "n", "o", "p", "q", "r", "s", "t", "u", "v", "w", "x", "y", "z",
           "A", "B", "C", "D", "E", "F", "G", "H", "I", "J", "K", "L", "M",
           "N", "O", "P", "Q", "R", "S", "T", "U", "V", "W", "X", "Y", "Z"}

\* The classes [A-Za-z_] and [A-Za-z0-9_] of the environment-prefix pattern.
IsIdentStart(c) == IsAlpha(c) \/ c = "_"

IsIdentChar(c) == IsAlpha(c) \/ IsDigit(c) \/ c = "_"

\* The position after the greedy run \s* that starts at i.
RECURSIVE SkipSpace(_, _)
SkipSpace(s, i) == IF IsSpace(Ch(s, i)) THEN SkipSpace(s, i + 1) ELSE i

\* The position after the greedy run \S* that starts at i.
RECURSIVE SkipNonSpace(_, _)
SkipNonSpace(s, i) == IF IsNonSpace(Ch(s, i)) THEN SkipNonSpace(s, i + 1) ELSE i

\* The position after the greedy run \d* that starts at i.
RECURSIVE SkipDigits(_, _)
SkipDigits(s, i) == IF IsDigit(Ch(s, i)) THEN SkipDigits(s, i + 1) ELSE i

\* The position after the greedy run " *" (the space character only).
RECURSIVE SkipBlanks(_, _)
SkipBlanks(s, i) == IF Ch(s, i) = " " THEN SkipBlanks(s, i + 1) ELSE i

\* \s+ at i: the position after it, 0 when no white space stands at i.
WsPlus(s, i) == IF IsSpace(Ch(s, i)) THEN SkipSpace(s, i) ELSE 0

\* (\s|$) at i.
SpaceOrEnd(s, i) == i = Len(s) + 1 \/ IsSpace(Ch(s, i))

\* String.prototype.trimStart.
trimStart(s) == From(s, SkipSpace(s, 1))

\* The position of the last character left by trimEnd (0: nothing is left).
RECURSIVE TrimEndPos(_, _)
TrimEndPos(s, n) == IF n >= 1 /\ IsSpace(Ch(s, n)) THEN TrimEndPos(s, n - 1) ELSE n

\* String.prototype.trimEnd.
trimEnd(s) == Upto(s, TrimEndPos(s, Len(s)))

\* s.split(/\s+/)[0]: the text before the first white space.
FirstPiece(s) == Upto(s, SkipNonSpace(s, 1) - 1)

\* Array.prototype.join.
RECURSIVE join(_, _)
join(parts, sep) ==
    IF Len(parts) = 0 THEN ""
    ELSE IF Len(parts) = 1 THEN parts[1]
    ELSE parts[1] \o sep \o join(Tail(parts), sep)

\* cmd.split("\n"), scanning from position i with the piece that starts at b.
RECURSIVE SplitFrom(_, _, _)
SplitFrom(s, b, i) ==
    IF i > Len(s) THEN <<Slice(s, b, i)>>
    ELSE IF Ch(s, i) = "\n" THEN <<Slice(s, b, i)>> \o SplitFrom(s, i + 1, i + 1)
    ELSE SplitFrom(s, b, i + 1)

splitLines(s) == SplitFrom(s, 1, 1)

\* ------------------------------------------------------------------------
\* Sub-command extractors
\* ------------------------------------------------------------------------

\* cmd.replace(/^<prog>\s+/, ""): the program name and the white space after
\* it removed from the front.
StripProg(cmd, prog) ==
    IF HasAt(cmd, prog, 1) /\ WsPlus(cmd, Len(prog) + 1) # 0
    THEN From(cmd, WsPlus(cmd, Len(prog) + 1))
    ELSE cmd

\* /(f1|f2|..)\s+\S+\s*/ at position i: the position after the match, or 0.
FlagArgEnd(s, flags, i) ==
    LET hits == {f \in flags : HasAt(s, f, i)}
    IN  IF hits = {} THEN 0
        ELSE LET f == CHOOSE g \in hits : TRUE
                 a == WsPlus(s, i + Len(f))
             IN  IF a = 0 \/ ~IsNonSpace(Ch(s, a)) THEN 0
                 ELSE SkipSpace(s, SkipNonSpace(s, a))

\* s.replace(/(f1|f2|..)\s+\S+\s*/g, ""), from position i on.
RECURSIVE RemoveFlagArgs(_, _, _)
RemoveFlagArgs(s, flags, i) ==
    IF i > Len(s) THEN ""
    ELSE LET e == FlagArgEnd(s, flags, i)
         IN  IF e # 0 THEN RemoveFlagArgs(s, flags, e)
             ELSE Ch(s, i) \o RemoveFlagArgs(s, flags, i + 1)

\* /--\S+=\S+\s*/ at position i: the position after the match, or 0.  The
\* first \S+ backtracks to any "=" of the run that leaves a character on
\* both sides; the second \S+ then runs to the end of the run.
KeyValueEnd(s, i) ==
    IF ~HasAt(s, "--", i) THEN 0
    ELSE LET e == SkipNonSpace(s, i + 2)
         IN  IF \E k \in (i + 3)..(e - 2) : Ch(s, k) = "="
             THEN SkipSpace(s, e)
             ELSE 0

\* s.replace(/--\S+=\S+\s*/g, ""), from position i on.
RECURSIVE RemoveKeyValues(_, _)
RemoveKeyValues(s, i) ==
    IF i > Len(s) THEN ""
    ELSE LET e == KeyValueEnd(s, i)
         IN  IF e # 0 THEN RemoveKeyValues(s, e)
             ELSE Ch(s, i) \o RemoveKeyValues(s, i + 1)

\* /--(n1|n2|..)\s*/ at position i: the position after the match, or 0.
NamedFlagEnd(s, names, i) ==
    LET hits == {n \in names : HasAt(s, "--" \o n, i)}
    IN  IF hits = {} THEN 0
        ELSE SkipSpace(s, i + 2 + Len(CHOOSE n \in hits : TRUE))

\* s.replace(/--(n1|n2|..)\s*/g, ""), from position i on.
RECURSIVE RemoveNamedFlags(_, _, _)
RemoveNamedFlags(s, names, i) ==
    IF i > Len(s) THEN ""
    ELSE LET e == NamedFlagEnd(s, names, i)
         IN  IF e # 0 THEN RemoveNamedFlags(s, names, e)
             ELSE Ch(s, i) \o RemoveNamedFlags(s, names, i + 1)

\* The git flags removed together with their argument, and those removed alone.
GitArgFlags == {"-C", "-c"}

GitBareFlags == {"no-pager", "no-optional-locks", "bare", "literal-pathspecs"}

\* Extract the git sub-command, stripping flags like -C, -c, --no-pager.
gitSubcmd(cmd) ==
    FirstPiece(trimStart(
        RemoveNamedFlags(
            RemoveKeyValues(
                RemoveFlagArgs(StripProg(cmd, "git"), GitArgFlags, 1), 1),
            GitBareFlags, 1)))

\* Extract the docker sub-command, stripping connection flags.
dockerSubcmd(cmd) ==
    FirstPiece(trimStart(
        RemoveKeyValues(
            RemoveFlagArgs(StripProg(cmd, "docker"),
                           {"-H", "--context", "--config"}, 1), 1)))

\* Extract the kubectl sub-command, stripping namespace/context flags.
kubectlSubcmd(cmd) ==
    FirstPiece(trimStart(
        RemoveKeyValues(
            RemoveFlagArgs(StripProg(cmd, "kubectl"),
                           {"--context", "--kubeconfig", "--namespace", "-n"}, 1), 1)))

\* The cargo rule's sub-command: cmd.replace(/^cargo\s+(\+\S+\s+)?/, "")
\* .split(/\s+/)[0].
cargoSubcmd(cmd) ==
    LET a == IF HasAt(cmd, "cargo", 1) THEN WsPlus(cmd, 6) ELSE 0
        t == IF a # 0 /\ Ch(cmd, a) = "+" /\ IsNonSpace(Ch(cmd, a + 1))
             THEN WsPlus(cmd, SkipNonSpace(cmd, a + 1))
             ELSE 0
        rest == IF a = 0 THEN cmd ELSE IF t # 0 THEN From(cmd, t) ELSE From(cmd, a)
    IN  FirstPiece(rest)

GIT_SUBCMDS ==
    {"status", "diff", "log", "add", "commit", "push",
     "pull", "branch", "fetch", "stash", "show"}

CARGO_SUBCMDS == {"test", "build", "clippy", "check", "install", "fmt"}

DOCKER_SIMPLE_SUBCMDS == {"ps", "images", "logs", "run", "build", "exec"}

KUBECTL_SUBCMDS == {"get", "logs", "describe", "apply"}

\* ------------------------------------------------------------------------
\* Quote-aware scanners and the grep / find translators
\* ------------------------------------------------------------------------

\* The scan of splitAtShellOp from position i in quote state `quote` ("" is
\* the source's null): the position of the first unquoted |, ;, >, < or &&,
\* or 0 when there is none.
RECURSIVE ShellOpPos(_, _, _)
ShellOpPos(cmd, i, quote) ==
    IF i > Len(cmd) THEN 0
    ELSE LET ch == Ch(cmd, i)
         IN  IF quote # ""
             THEN ShellOpPos(cmd, i + 1, IF ch = quote THEN "" ELSE quote)
             ELSE IF ch = "\"" \/ ch = "'" THEN ShellOpPos(cmd, i + 1, ch)
             ELSE IF ch \in {"|", ";", ">", "<"} THEN i
             ELSE IF ch = "&" /\ Ch(cmd, i + 1) = "&" THEN i
             ELSE ShellOpPos(cmd, i + 1, "")

\* Split a command string at the first unquoted shell operator.  Returns
\* <<commandPart, shellTail>> where shellTail includes the operator.
splitAtShellOp(cmd) ==
    LET p == ShellOpPos(cmd, 1, "")
    IN  IF p = 0 THEN <<cmd, "">>
        ELSE <<trimEnd(Upto(cmd, p - 1)), " " \o From(cmd, p)>>

\* The scan of shellTokenise from position i with the token `current` under
\* construction: the tokens still to be pushed.
RECURSIVE TokeniseFrom(_, _, _, _)
TokeniseFrom(input, i, current, quote) ==
    IF i > Len(input) THEN (IF current # "" THEN <<current>> ELSE <<>>)
    ELSE LET ch == Ch(input, i)
         IN  IF quote # ""
             THEN IF ch = quote
                  THEN TokeniseFrom(input, i + 1, current, "")
                  ELSE TokeniseFrom(input, i + 1, current \o ch, quote)
             ELSE IF ch = "\"" \/ ch = "'"
             THEN TokeniseFrom(input, i + 1, current, ch)
             ELSE IF ch = " " \/ ch = "\t"
             THEN (IF current # "" THEN <<current>> ELSE <<>>)
                  \o TokeniseFrom(input, i + 1, "", "")
             ELSE TokeniseFrom(input, i + 1, current \o ch, "")

\* Simple shell tokeniser: splits on white space, respects quotes.
shellTokenise(input) == TokeniseFrom(input, 1, "", "")

\* A translator's result: the source's string, or null.
NoTranslation == [ok |-> FALSE, val |-> ""]

Translation(v) == [ok |-> TRUE, val |-> v]

\* /^-[a-zA-Z]{2,}$/ and not "--...": a combined short-flag cluster.
IsShortCluster(tok) ==
    /\ Len(tok) >= 3
    /\ Ch(tok, 1) = "-"
    /\ \A k \in 2..Len(tok) : IsAlpha(Ch(tok, k))

\* A strip set that takes the line-number letter as redundant too.
stripShortAndN == {"r", "R", "n"}

\* Flags to strip (redundant in rtk grep).
stripShort == {"r", "R"}

\* tok.slice(1).split("").filter(ch => !stripShort.has(ch)).join(""),
\* from position i of the cluster on.
RECURSIVE KeptLetters(_, _)
KeptLetters(tok, i) ==
    IF i > Len(tok) THEN ""
    ELSE (IF Ch(tok, i) \in stripShort THEN "" ELSE Ch(tok, i)) \o KeptLetters(tok, i + 1)

\* Flags that consume a following argument.
argFlags == {"-A", "-B", "-C", "-m", "-e", "-f", "--glob"}

\* An --include matcher that never matches.
IncludeGlobNever(tok) == ""

\* /^--include=(.+)$/: the captured glob, "" when the token does not match.
IncludeGlob(tok) ==
    IF HasAt(tok, "--include=", 1) /\ Len(tok) > 10 /\ ~includes(From(tok, 11), "\n")
    THEN From(tok, 11)
    ELSE ""

\* The token loop of translateGrep from token i on.  st holds pattern and
\* path (hasPattern / hasPath: not null) and extraArgs; bail: the loop hit
\* a third positional and returned null.
RECURSIVE GrepLoop(_, _, _)
GrepLoop(tokens, i, st) ==
    IF i > Len(tokens) THEN st
    ELSE LET tok == tokens[i]
         IN  IF IsShortCluster(tok)
             THEN LET kept == KeptLetters(tok, 2)
                  IN  GrepLoop(tokens, i + 1,
                          IF Len(kept) > 0
                          THEN [st EXCEPT !.extraArgs = Append(@, "-" \o kept)]
                          ELSE st)
             ELSE IF tok = "-r" \/ tok = "-R" \/ tok = "--recursive"
             THEN GrepLoop(tokens, i + 1, st)
             ELSE IF IncludeGlob(tok) # ""
             THEN GrepLoop(tokens, i + 1,
                      [st EXCEPT !.extraArgs = @ \o <<"--glob", IncludeGlob(tok)>>])
             ELSE IF tok = "--include" /\ i + 1 <= Len(tokens)
             THEN GrepLoop(tokens, i + 2,
                      [st EXCEPT !.extraArgs = @ \o <<"--glob", tokens[i + 1]>>])
             ELSE IF tok \in argFlags /\ i + 1 <= Len(tokens)
             THEN GrepLoop(tokens, i + 2,
                      [st EXCEPT !.extraArgs = @ \o <<tok, tokens[i + 1]>>])
             ELSE IF startsWithStr(tok, "-")
             THEN GrepLoop(tokens, i + 1, [st EXCEPT !.extraArgs = Append(@, tok)])
             ELSE IF ~st.hasPattern
             THEN GrepLoop(tokens, i + 1, [st EXCEPT !.hasPattern = TRUE, !.pattern = tok])
             ELSE IF ~st.hasPath
             THEN GrepLoop(tokens, i + 1, [st EXCEPT !.hasPath = TRUE, !.path = tok])
             ELSE [st EXCEPT !.bail = TRUE]

\* cmdPart.replace(/^(rg|grep)\s+/, "").
StripGrep(cmdPart) ==
    IF HasAt(cmdPart, "rg", 1) /\ WsPlus(cmdPart, 3) # 0 THEN From(cmdPart, WsPlus(cmdPart, 3))
    ELSE StripProg(cmdPart, "grep")

\* translateGrep that keeps the first two positionals of any number.
translateGrepNoBail(body) ==
    LET sp == splitAtShellOp(body)
        rest == StripGrep(sp[1])
        st == GrepLoop(shellTokenise(rest), 1,
                  [hasPattern |-> FALSE, pattern |-> "", hasPath |-> FALSE,
                   path |-> "", extraArgs |-> <<>>, bail |-> FALSE])
        parts == <<"rtk grep", st.pattern>>
                 \o (IF st.hasPath /\ st.path # "" THEN <<st.path>> ELSE <<>>)
                 \o (IF Len(st.extraArgs) > 0 THEN <<join(st.extraArgs, " ")>> ELSE <<>>)
    IN  IF rest = "" THEN NoTranslation
        ELSE IF ~st.hasPattern \/ st.pattern = "" THEN NoTranslation
        ELSE Translation(join(parts, " ") \o sp[2])

\* Translate a grep/rg invocation to rtk grep positional syntax; null if
\* untranslatable.
translateGrep(body) ==
    LET sp == splitAtShellOp(body)
        rest == StripGrep(sp[1])
        st == GrepLoop(shellTokenise(rest), 1,
                  [hasPattern |-> FALSE, pattern |-> "", hasPath |-> FALSE,
                   path |-> "", extraArgs |-> <<>>, bail |-> FALSE])
        parts == <<"rtk grep", st.pattern>>
                 \o (IF st.hasPath /\ st.path # "" THEN <<st.path>> ELSE <<>>)
                 \o (IF Len(st.extraArgs) > 0 THEN <<join(st.extraArgs, " ")>> ELSE <<>>)
    IN  IF rest = "" THEN NoTranslation
        ELSE IF st.bail THEN NoTranslation
        ELSE IF ~st.hasPattern \/ st.pattern = "" THEN NoTranslation
        ELSE Translation(join(parts, " ") \o sp[2])

\* Side-effect flags of find: translateFind bails out on any of them.
dangerous == {"-exec", "-execdir", "-delete", "-print0", "-ok", "-fls", "-fprint"}

\* Only -maxdepth is skipped together with its value.
skipWithArgMaxOnly == {"-maxdepth"}

\* Flags understood but skipped together with their value.
skipWithArg == {"-maxdepth", "-mindepth"}

\* The token loop of translateFind from token i on.
RECURSIVE FindLoop(_, _, _)
FindLoop(tokens, i, st) ==
    IF i > Len(tokens) THEN st
    ELSE LET tok == tokens[i]
         IN  IF tok = "-name" \/ tok = "-iname"
             THEN IF i + 1 <= Len(tokens)
                  THEN FindLoop(tokens, i + 2,
                           [st EXCEPT !.hasName = TRUE, !.namePattern = tokens[i + 1]])
                  ELSE FindLoop(tokens, i + 1, st)
             ELSE IF tok = "-type" /\ i + 1 <= Len(tokens)
             THEN FindLoop(tokens, i + 2, [st EXCEPT !.fileType = tokens[i + 1]])
             ELSE IF tok \in skipWithArg /\ i + 1 <= Len(tokens)
             THEN FindLoop(tokens, i + 2, st)
             ELSE IF startsWithStr(tok, "-")
             THEN [st EXCEPT !.bail = TRUE]
             ELSE IF ~st.hasPath
             THEN FindLoop(tokens, i + 1, [st EXCEPT !.hasPath = TRUE, !.path = tok])
             ELSE FindLoop(tokens, i + 1, st)

\* Translate a find invocation to rtk find positional syntax; null if
\* untranslatable.
translateFind(body) ==
    LET sp == splitAtShellOp(body)
        rest == StripProg(sp[1], "find")
        tokens == shellTokenise(rest)
        st == FindLoop(tokens, 1,
                  [hasName |-> FALSE, namePattern |-> "", hasPath |-> FALSE,
                   path |-> "", fileType |-> "", bail |-> FALSE])
        parts == <<"rtk find", st.namePattern>>
                 \o (IF st.hasPath /\ st.path # "" THEN <<st.path>> ELSE <<>>)
                 \o (IF st.fileType = "f" \/ st.fileType = "d"
                     THEN <<"-t", st.fileType>> ELSE <<>>)
    IN  IF rest = "" THEN NoTranslation
        ELSE IF \E k \in 1..Len(tokens) : tokens[k] \in dangerous THEN NoTranslation
        ELSE IF st.bail THEN NoTranslation
        ELSE IF ~st.hasName \/ st.namePattern = "" THEN NoTranslation
        ELSE Translation(join(parts, " ") \o sp[2])

\* ------------------------------------------------------------------------
\* Rewrite rules
\* ------------------------------------------------------------------------

\* /^w\s/ : the word and one white-space character.
WordSpace(s, w) == HasAt(s, w, 1) /\ IsSpace(Ch(s, Len(w) + 1))

\* /^w(\s|$)/ at position i.
WordAt(s, w, i) == HasAt(s, w, i) /\ SpaceOrEnd(s, i + Len(w))

\* An optional group (w1\s+|w2\s+|..)? at position i: the position after it.
OptWords(s, i, ws) ==
    LET hits == {w \in ws : HasAt(s, w, i) /\ WsPlus(s, i + Len(w)) # 0}
    IN  IF hits = {} THEN i
        ELSE WsPlus(s, i + Len(CHOOSE w \in hits : TRUE))

\* body.replace(/^lit/, repl) for a literal pattern.
ReplaceLit(body, lit, repl) ==
    IF startsWithStr(body, lit) THEN repl \o From(body, Len(lit) + 1) ELSE body

\* body.replace(/^(o1\s+|o2\s+)?prog/, repl), with the position p after the
\* optional groups.
ReplaceProgAt(body, p, prog, repl) ==
    IF HasAt(body, prog, p) THEN repl \o From(body, p + Len(prog)) ELSE body

\* The character class "." : anything but a line terminator.
NoLineTerminator(s) == \A k \in 1..Len(s) : Ch(s, k) \notin {"\n", "\r"}

\* /^head\s+<dash>(\d+)\s+(.+)$/ : <<N, rest>>, or <<"", "">> when the body
\* does not match.  \s+ is greedy and gives characters back until (.+) has
\* at least one character, none of them a line terminator.
HeadForm(body, dash) ==
    LET a  == IF HasAt(body, "head", 1) THEN WsPlus(body, 5) ELSE 0
        d0 == a + Len(dash)
        d1 == SkipDigits(body, d0)
        w1 == WsPlus(body, d1)
        js == {j \in (d1 + 1)..w1 : j <= Len(body) /\ NoLineTerminator(From(body, j))}
    IN  IF a = 0 \/ ~HasAt(body, dash, a) \/ d1 = d0 \/ w1 = 0 \/ js = {}
        THEN <<"", "">>
        ELSE <<Slice(body, d0, d1), From(body, CHOOSE j \in js : \A k \in js : k <= j)>>

\* A head rewrite that hands the file to cat.
headRewriteToCat(body) == "cat " \o From(body, 6)

\* The rewrite of the rule "head -> rtk read".
headRewrite(body) ==
    LET m1 == HeadForm(body, "-")
        m2 == HeadForm(body, "--lines=")
    IN  IF m1[1] # "" THEN "rtk read " \o m1[2] \o " --max-lines " \o m1[1]
        ELSE IF m2[1] # "" THEN "rtk read " \o m2[2] \o " --max-lines " \o m2[1]
        ELSE body

\* /^head\s+(-\d+|--lines=\d+)\s+/ : the predicate of the head rule.
headMatch(cmd) ==
    LET a  == IF HasAt(cmd, "head", 1) THEN WsPlus(cmd, 5) ELSE 0
        e1 == IF a # 0 /\ HasAt(cmd, "-", a) /\ SkipDigits(cmd, a + 1) > a + 1
              THEN SkipDigits(cmd, a + 1) ELSE 0
        e2 == IF a # 0 /\ HasAt(cmd, "--lines=", a) /\ SkipDigits(cmd, a + 8) > a + 8
              THEN SkipDigits(cmd, a + 8) ELSE 0
    IN  (e1 # 0 /\ IsSpace(Ch(cmd, e1))) \/ (e2 # 0 /\ IsSpace(Ch(cmd, e2)))

\* The labels of the rule table, in the order the rules are tried.  The
\* source writes the arrow of two labels as a Unicode arrow.
rules ==
    <<"git", "gh", "cargo", "cat -> rtk read", "grep/rg", "ls", "tree", "find",
      "diff", "head -> rtk read", "vitest", "pnpm test", "npm test", "npm run",
      "vue-tsc / tsc", "pnpm tsc", "tsc", "pnpm lint", "eslint", "prettier",
      "playwright", "prisma", "docker compose", "docker", "kubectl", "curl",
      "wget", "pnpm list/outdated", "pytest", "python -m pytest", "ruff", "pip",
      "uv pip", "go test", "go build", "go vet", "golangci-lint">>

\* /^w1\s+w2\s+..\s+/ from position i: the position after the last \s+, or 0.
RECURSIVE AfterWords(_, _, _)
AfterWords(s, i, ws) ==
    IF Len(ws) = 0 THEN i
    ELSE IF HasAt(s, Head(ws), i) /\ WsPlus(s, i + Len(Head(ws))) # 0
    THEN AfterWords(s, WsPlus(s, i + Len(Head(ws))), Tail(ws))
    ELSE 0

\* A predicate that tests the leading words only.
WordsThenAny(s, ws, subs) == AfterWords(s, 1, ws) # 0

\* /^w1\s+..\s+(b1|b2|..)(\s|$)/ : leading words, then one of the words subs.
WordsThen(s, ws, subs) ==
    AfterWords(s, 1, ws) # 0 /\ \E b \in subs : WordAt(s, b, AfterWords(s, 1, ws))

\* rule.match of the rule labelled `label`.
ruleMatch(label, cmd) ==
    CASE label = "git" -> WordSpace(cmd, "git") /\ gitSubcmd(cmd) \in GIT_SUBCMDS
      [] label = "gh" -> WordsThen(cmd, <<"gh">>, {"pr", "issue", "run", "api", "release"})
      [] label = "cargo" -> WordSpace(cmd, "cargo") /\ cargoSubcmd(cmd) \in CARGO_SUBCMDS
      [] label = "cat -> rtk read" -> AfterWords(cmd, 1, <<"cat">>) # 0
      [] label = "grep/rg" ->
            AfterWords(cmd, 1, <<"rg">>) # 0 \/ AfterWords(cmd, 1, <<"grep">>) # 0
      [] label = "ls" -> WordAt(cmd, "ls", 1)
      [] label = "tree" -> WordAt(cmd, "tree", 1)
      [] label = "find" -> AfterWords(cmd, 1, <<"find">>) # 0
      [] label = "diff" -> AfterWords(cmd, 1, <<"diff">>) # 0
      [] label = "head -> rtk read" -> headMatch(cmd)
      [] label = "vitest" ->
            WordAt(cmd, "vitest", OptWords(cmd, OptWords(cmd, 1, {"pnpm"}), {"npx"}))
      [] label = "pnpm test" -> WordsThen(cmd, <<"pnpm">>, {"test"})
      [] label = "npm test" -> WordsThen(cmd, <<"npm">>, {"test"})
      [] label = "npm run" -> AfterWords(cmd, 1, <<"npm", "run">>) # 0
      [] label = "vue-tsc / tsc" -> WordAt(cmd, "vue-tsc", OptWords(cmd, 1, {"npx"}))
      [] label = "pnpm tsc" -> WordsThen(cmd, <<"pnpm">>, {"tsc"})
      [] label = "tsc" -> WordAt(cmd, "tsc", OptWords(cmd, 1, {"npx"}))
      [] label = "pnpm lint" -> WordsThen(cmd, <<"pnpm">>, {"lint"})
      [] label = "eslint" -> WordAt(cmd, "eslint", OptWords(cmd, 1, {"npx"}))
      [] label = "prettier" -> WordAt(cmd, "prettier", OptWords(cmd, 1, {"npx"}))
      [] label = "playwright" ->
            WordAt(cmd, "playwright", OptWords(cmd, 1, {"npx", "pnpm"}))
      [] label = "prisma" -> WordAt(cmd, "prisma", OptWords(cmd, 1, {"npx"}))
      [] label = "docker compose" -> WordsThen(cmd, <<"docker">>, {"compose"})
      [] label = "docker" ->
            /\ WordSpace(cmd, "docker")
            /\ ~HasAt(cmd, "compose", AfterWords(cmd, 1, <<"docker">>))
            /\ dockerSubcmd(cmd) \in DOCKER_SIMPLE_SUBCMDS
      [] label = "kubectl" ->
            WordSpace(cmd, "kubectl") /\ kubectlSubcmd(cmd) \in KUBECTL_SUBCMDS
      [] label = "curl" -> AfterWords(cmd, 1, <<"curl">>) # 0
      [] label = "wget" -> AfterWords(cmd, 1, <<"wget">>) # 0
      [] label = "pnpm list/outdated" ->
            WordsThen(cmd, <<"pnpm">>, {"list", "ls", "outdated"})
      [] label = "pytest" -> WordAt(cmd, "pytest", 1)
      [] label = "python -m pytest" -> WordsThen(cmd, <<"python", "-m">>, {"pytest"})
      [] label = "ruff" -> WordsThen(cmd, <<"ruff">>, {"check", "format"})
      [] label = "pip" ->
            WordsThen(cmd, <<"pip">>, {"list", "outdated", "install", "show"})
      [] label = "uv pip" ->
            WordsThen(cmd, <<"uv", "pip">>, {"list", "outdated", "install", "show"})
      [] label = "go test" -> WordsThen(cmd, <<"go">>, {"test"})
      [] label = "go build" -> WordsThen(cmd, <<"go">>, {"build"})
      [] label = "go vet" -> WordsThen(cmd, <<"go">>, {"vet"})
      [] label = "golangci-lint" -> WordAt(cmd, "golangci-lint", 1)
      [] OTHER -> FALSE

\* body.replace(/^(pnpm\s+)?(npx\s+)?vitest(\s+run)?/, "rtk vitest run").
vitestRewrite(body) ==
    LET p == OptWords(body, OptWords(body, 1, {"pnpm"}), {"npx"})
        e == p + 6
        r == WsPlus(body, e)
    IN  IF ~HasAt(body, "vitest", p) THEN body
        ELSE IF r # 0 /\ HasAt(body, "run", r) THEN "rtk vitest run" \o From(body, r + 3)
        ELSE "rtk vitest run" \o From(body, e)

\* The grep/rg and find rewrites of the structural-translation rule table:
\* translateGrep(body) ?? body and translateFind(body) ?? body.
grepRewrite(body) == IF translateGrep(body).ok THEN translateGrep(body).val ELSE body

findRewrite(body) == IF translateFind(body).ok THEN translateFind(body).val ELSE body

\* rule.rewrite of the rule labelled `label` (structural-translation table).
ruleRewrite(label, body) ==
    CASE label = "git" -> "rtk " \o body
      [] label = "gh" -> ReplaceLit(body, "gh ", "rtk gh ")
      [] label = "cargo" -> "rtk " \o body
      [] label = "cat -> rtk read" -> ReplaceLit(body, "cat ", "rtk read ")
      [] label = "grep/rg" -> grepRewrite(body)
      [] label = "ls" -> ReplaceLit(body, "ls", "rtk ls")
      [] label = "tree" -> ReplaceLit(body, "tree", "rtk tree")
      [] label = "find" -> findRewrite(body)
      [] label = "diff" -> ReplaceLit(body, "diff ", "rtk diff ")
      [] label = "head -> rtk read" -> headRewrite(body)
      [] label = "vitest" -> vitestRewrite(body)
      [] label = "pnpm test" -> ReplaceLit(body, "pnpm test", "rtk vitest run")
      [] label = "npm test" -> ReplaceLit(body, "npm test", "rtk npm test")
      [] label = "npm run" -> ReplaceLit(body, "npm run ", "rtk npm ")
      [] label = "vue-tsc / tsc" ->
            ReplaceProgAt(body, OptWords(body, 1, {"npx"}), "vue-tsc", "rtk tsc")
      [] label = "pnpm tsc" -> ReplaceLit(body, "pnpm tsc", "rtk tsc")
      [] label = "tsc" -> ReplaceProgAt(body, OptWords(body, 1, {"npx"}), "tsc", "rtk tsc")
      [] label = "pnpm lint" -> ReplaceLit(body, "pnpm lint", "rtk lint")
      [] label = "eslint" ->
            ReplaceProgAt(body, OptWords(body, 1, {"npx"}), "eslint", "rtk lint")
      [] label = "prettier" ->
            ReplaceProgAt(body, OptWords(body, 1, {"npx"}), "prettier", "rtk prettier")
      [] label = "playwright" ->
            ReplaceProgAt(body, OptWords(body, 1, {"npx", "pnpm"}), "playwright",
                          "rtk playwright")
      [] label = "prisma" ->
            ReplaceProgAt(body, OptWords(body, 1, {"npx"}), "prisma", "rtk prisma")
      [] label = "docker compose" -> ReplaceLit(body, "docker ", "rtk docker ")
      [] label = "docker" -> ReplaceLit(body, "docker ", "rtk docker ")
      [] label = "kubectl" -> ReplaceLit(body, "kubectl ", "rtk kubectl ")
      [] label = "curl" -> ReplaceLit(body, "curl ", "rtk curl ")
      [] label = "wget" -> ReplaceLit(body, "wget ", "rtk wget ")
      [] label = "pnpm list/outdated" -> ReplaceLit(body, "pnpm ", "rtk pnpm ")
      [] label = "pytest" -> ReplaceLit(body, "pytest", "rtk pytest")
      [] label = "python -m pytest" -> ReplaceLit(body, "python -m pytest", "rtk pytest")
      [] label = "ruff" -> ReplaceLit(body, "ruff ", "rtk ruff ")
      [] label = "pip" -> ReplaceLit(body, "pip ", "rtk pip ")
      [] label = "uv pip" -> ReplaceLit(body, "uv pip ", "rtk pip ")
      [] label = "go test" -> ReplaceLit(body, "go test", "rtk go test")
      [] label = "go build" -> ReplaceLit(body, "go build", "rtk go build")
      [] label = "go vet" -> ReplaceLit(body, "go vet", "rtk go vet")
      [] label = "golangci-lint" -> ReplaceLit(body, "golangci-lint", "rtk golangci-lint")
      [] OTHER -> body

\* body.replace(/^(rg|grep) /, "rtk grep "): the grep/rg rewrite of the
\* prefix-substitution rule table.
grepPrefixRewrite(body) ==
    IF startsWithStr(body, "rg ") THEN ReplaceLit(body, "rg ", "rtk grep ")
    ELSE ReplaceLit(body, "grep ", "rtk grep ")

\* The prefix-substitution table with the translating grep/rg and find
\* rewrites of the other table.
ruleRewriteTranslating(label, body) == ruleRewrite(label, body)

\* rule.rewrite of the prefix-substitution rule table: the same rules, with
\* grep/rg and find as plain prefix substitutions.
ruleRewritePrefix(label, body) ==
    CASE label = "grep/rg" -> grepPrefixRewrite(body)
      [] label = "find" -> ReplaceLit(body, "find ", "rtk find ")
      [] OTHER -> ruleRewrite(label, body)

\* ------------------------------------------------------------------------
\* Core rewrite logic
\* ------------------------------------------------------------------------

\* One iteration of /(?:[A-Za-z_][A-Za-z0-9_]*=[^ ]* +)/ at position i: the
\* position after it, or 0.
RECURSIVE SkipIdent(_, _)
SkipIdent(s, i) == IF IsIdentChar(Ch(s, i)) THEN SkipIdent(s, i + 1) ELSE i

RECURSIVE SkipNonBlank(_, _)
SkipNonBlank(s, i) ==
    IF i <= Len(s) /\ Ch(s, i) # " " THEN SkipNonBlank(s, i + 1) ELSE i

AssignEnd(s, i) ==
    IF ~IsIdentStart(Ch(s, i)) THEN 0
    ELSE LET e == SkipIdent(s, i + 1)
             v == SkipNonBlank(s, e + 1)
         IN  IF Ch(s, e) # "=" \/ Ch(s, v) # " " THEN 0 ELSE SkipBlanks(s, v)

\* The greedy repetition (...)+ from position i: the position after the last
\* iteration that matches.
RECURSIVE EnvPrefixEnd(_, _)
EnvPrefixEnd(s, i) == IF AssignEnd(s, i) = 0 THEN i ELSE EnvPrefixEnd(s, AssignEnd(s, i))

\* A split whose pattern lacks the repetition: one assignment at most.
splitEnvPrefixOnce(cmd) ==
    LET e == AssignEnd(cmd, 1)
    IN  IF e > 1 THEN <<Upto(cmd, e - 1), From(cmd, e)>> ELSE <<"", cmd>>

\* Separates leading `KEY=val ` env-var assignments from the command body.
splitEnvPrefix(cmd) ==
    LET e == EnvPrefixEnd(cmd, 1)
    IN  IF e > 1 THEN <<Upto(cmd, e - 1), From(cmd, e)>> ELSE <<"", cmd>>

\* A RewriteResult, or the source's null.
Null == [ok |-> FALSE, rewritten |-> "", rule |-> ""]

RewriteResult(rewritten, rule) == [ok |-> TRUE, rewritten |-> rewritten, rule |-> rule]

\* /^rtk\s/.test(command) || /\/rtk\s/.test(command)
alreadyRtk(command) ==
    \/ WordSpace(command, "rtk")
    \/ \E i \in 1..Len(command) : HasAt(command, "/rtk", i) /\ IsSpace(Ch(command, i + 4))

\* A rule loop that returns the rewritten body without the env prefix.
ruleResultNoPrefix(envPrefix, body, label, rewrittenBody) ==
    IF ~ruleMatch(label, body) THEN Null
    ELSE IF rewrittenBody = body THEN Null
    ELSE RewriteResult(rewrittenBody, label)

\* A rule loop that returns also a rewrite that left the body as it was.
ruleResultNoSkip(envPrefix, body, label, rewrittenBody) ==
    IF ~ruleMatch(label, body) THEN Null
    ELSE RewriteResult(envPrefix \o rewrittenBody, label)

\* The body of the rule loop for one rule: rewrittenBody is rule.rewrite(body),
\* computed when the rule's pattern matches; a rewrite that leaves the body as
\* it was is skipped (Null here).
ruleResult(envPrefix, body, label, rewrittenBody) ==
    IF ~ruleMatch(label, body) THEN Null
    ELSE IF rewrittenBody = body THEN Null
    ELSE RewriteResult(envPrefix \o rewrittenBody, label)

\* The first result of a sequence of rule results that is no Null, from i on.
RECURSIVE firstHit(_, _)
firstHit(results, i) ==
    IF i > Len(results) THEN Null
    ELSE IF results[i].ok THEN results[i]
    ELSE firstHit(results, i + 1)

\* The rule walk of tryRewriteSingle on the split command sp: the first rule
\* that matches and whose rewrite changes the body wins.
walkRules(sp) ==
    firstHit([i \in 1..Len(rules) |->
                 ruleResult(sp[1], sp[2], rules[i], ruleRewrite(rules[i], sp[2]))], 1)

\* A single-line engine that prefixes whatever it is given.
tryRewriteSingleBlind(command) == RewriteResult("rtk " \o command, "blind")

tryRewriteSingle(command) ==
    IF alreadyRtk(command) THEN Null
    ELSE IF includes(command, "<<") THEN Null
    ELSE walkRules(splitEnvPrefix(command))

\* The loop of mergeContLines from line i on, with the buffer buf.
RECURSIVE MergeFrom(_, _, _)
MergeFrom(lines, i, buf) ==
    IF i > Len(lines) THEN (IF buf # "" THEN <<buf>> ELSE <<>>)
    ELSE IF endsWithStr(lines[i], "\\")
    THEN MergeFrom(lines, i + 1, buf \o lines[i] \o "\n")
    ELSE <<buf \o lines[i]>> \o MergeFrom(lines, i + 1, "")

\* Merge physical lines that end with a backslash into logical lines.
mergeContLines(lines) == MergeFrom(lines, 1, "")

\* One pass of tryRewrite's loop: the result for the logical line ln, Null
\* for a blank line, a comment and a line the single-line engine leaves.
lineResult(ln) ==
    IF trimStart(ln) = "" \/ startsWithStr(trimStart(ln), "#") THEN Null
    ELSE tryRewriteSingle(trimStart(ln))

\* What that pass pushes to rewrittenLines: the line as it was, or its
\* indent and the rewritten text.
rewriteLine(ln, result) ==
    IF result.ok THEN Upto(ln, Len(ln) - Len(trimStart(ln))) \o result.rewritten
    ELSE ln

\* hitRules after the passes from i on, starting from hit: each rule once,
\* in the order the lines hit them.
RECURSIVE hitRules(_, _, _)
hitRules(results, i, hit) ==
    IF i > Len(results) THEN hit
    ELSE IF ~results[i].ok \/ (\E k \in 1..Len(hit) : hit[k] = results[i].rule)
    THEN hitRules(results, i + 1, hit)
    ELSE hitRules(results, i + 1, Append(hit, results[i].rule))

\* The end of tryRewrite's multi-line path: null when no line was rewritten,
\* else the lines rejoined and the rules hit.
joinLines(logical, results) ==
    IF \A k \in 1..Len(results) : ~results[k].ok THEN Null
    ELSE RewriteResult(
             join([k \in 1..Len(logical) |-> rewriteLine(logical[k], results[k])], "\n"),
             join(hitRules(results, 1, <<>>), ", "))

\* The lines of tryRewrite's multi-line path.
rewriteLines(logical) ==
    joinLines(logical, [k \in 1..Len(logical) |-> lineResult(logical[k])])

\* tryRewrite without the global heredoc check of the multi-line path.
tryRewriteNoHeredocCheck(command) ==
    IF ~includes(command, "\n") THEN tryRewriteSingle(command)
    ELSE rewriteLines(mergeContLines(splitLines(command)))

\* Try to rewrite a (possibly multi-line) bash command.
tryRewrite(command) ==
    IF ~includes(command, "\n") THEN tryRewriteSingle(command)
    ELSE IF includes(command, "<<") THEN Null
    ELSE rewriteLines(mergeContLines(splitLines(command)))

\* The rule walk of the prefix-substitution variant.
walkRulesPrefix(sp) ==
    firstHit([i \in 1..Len(rules) |->
                 ruleResult(sp[1], sp[2], rules[i], ruleRewritePrefix(rules[i], sp[2]))], 1)

\* tryRewrite of the prefix-substitution variant (single-line engine only).
tryRewritePrefix(command) ==
    IF alreadyRtk(command) THEN Null
    ELSE IF includes(command, "<<") THEN Null
    ELSE walkRulesPrefix(splitEnvPrefix(command))

\* ------------------------------------------------------------------------
\* State
\* ------------------------------------------------------------------------

VARIABLES
    rtkAvailable,   \* the cached result of checkRtk()
    enabled,        \* the toggle flag of the extension
    stats,          \* RewriteStats: total, skipped, byRule
    event,          \* the tool_call event delivered last, as its handler left it
    original,       \* event.input.command of that event as it was delivered
    warnings,       \* the "rtk not found" warnings shown so far
    notice,         \* what the handler that ran last showed with ctx.ui.notify
    status,         \* the "rtk" status text set with ctx.ui.setStatus
    pc,             \* engine harness: "call" before the call, "done" after it
    arg,            \* engine harness: the argument of the call
    ret             \* engine harness: what the call returned

vars ==
    <<rtkAvailable, enabled, stats, event, original, warnings, notice, status, pc, arg, ret>>

extVars == <<rtkAvailable, enabled, stats, event, original, warnings, notice, status>>

harnessVars == <<pc, arg, ret>>

\* ------------------------------------------------------------------------
\* Bounds of the model
\* ------------------------------------------------------------------------

\* Tool calls counted in one session.
MaxTotal == 3

\* Warnings counted.
MaxWarnings == 2

\* Physical lines of a multi-line command.
MaxLines == 2

\* Global flags in front of a git sub-command.
MaxFlags == 2

\* Assignments in an environment prefix.
MaxAssign == 2

\* ------------------------------------------------------------------------
\* The extension: entry point, session_start, tool_call, /rtk:toggle
\* ------------------------------------------------------------------------

\* stats as created at extension load and as left by session_start.
emptyStats == [total |-> 0, skipped |-> 0, byRule |-> <<>>]

\* stats.byRule[rule] ?? 0, with byRule a sequence of <<rule, count>> pairs
\* in insertion order (the property order of the source's object).
byRuleCount(byRule, rule) ==
    IF \E k \in 1..Len(byRule) : byRule[k][1] = rule
    THEN byRule[CHOOSE k \in 1..Len(byRule) : byRule[k][1] = rule][2]
    ELSE 0

\* stats.byRule[rule] = (stats.byRule[rule] ?? 0) + 1
byRuleIncrement(byRule, rule) ==
    IF \E k \in 1..Len(byRule) : byRule[k][1] = rule
    THEN [k \in 1..Len(byRule) |->
             IF byRule[k][1] = rule THEN <<rule, byRule[k][2] + 1>> ELSE byRule[k]]
    ELSE Append(byRule, <<rule, 1>>)

\* The commands the agent sends in the model of the extension.
HandlerCommands ==
    {"git status", "echo hi", "ls -la | wc -l", "rtk ls", "cat <<EOF",
     "git status\nls", "FOO=1 cat a"}

\* A tool_call event: the tool, and input.command (isString: typeof command
\* is "string").
Events ==
    [toolName : {"bash", "read"}, isString : {TRUE}, command : HandlerCommands \cup {""}]
    \cup [toolName : {"bash"}, isString : {FALSE}, command : {""}]

\* No event delivered yet.
noEvent == [toolName |-> "", isString |-> FALSE, command |-> ""]

\* A notification: its level, its first line, and for the /rtk report the
\* counts of the lines that follow.
Notice(level, text, seen, rewritten, skipped, byRule) ==
    [level |-> level, text |-> text, seen |-> seen, rewritten |-> rewritten,
     skipped |-> skipped, byRule |-> byRule]

\* The handler that ran last showed nothing.
noNotice == Notice("", "", 0, 0, 0, <<>>)

\* Array.prototype.sort with (a, b) => b[1] - a[1]: the entries by falling
\* count, entries of equal count in the order they had (the sort is stable).
RECURSIVE sortByCount(_)
sortByCount(entries) ==
    IF Len(entries) = 0 THEN <<>>
    ELSE LET k == CHOOSE i \in 1..Len(entries) :
                     /\ \A j \in 1..Len(entries) : entries[j][2] <= entries[i][2]
                     /\ \A j \in 1..(i - 1) : entries[j][2] < entries[i][2]
         IN  <<entries[k]>>
             \o sortByCount([j \in 1..(Len(entries) - 1) |->
                                IF j < k THEN entries[j] ELSE entries[j + 1]])

\* State after the extension's entry point has run: checkRtk() has cached
\* either answer.
ExtInit ==
    /\ rtkAvailable \in BOOLEAN
    /\ enabled = TRUE
    /\ stats = emptyStats
    /\ event = noEvent
    /\ original = ""
    /\ warnings = 0
    /\ notice = noNotice
    /\ status = ""

\* The harness at rest (the specifications of the extension do not use it).
HarnessIdle == pc = "idle" /\ arg = "" /\ ret = Null

\* A count that forgets the commands passed through.
countResultNoSkip(st, result) ==
    IF result.ok
    THEN [st EXCEPT !.total = @ + 1, !.byRule = byRuleIncrement(@, result.rule)]
    ELSE [st EXCEPT !.total = @ + 1]

\* stats after the handler has counted a command with the result of
\* tryRewrite.
countResult(st, result) ==
    IF result.ok
    THEN [st EXCEPT !.total = @ + 1, !.byRule = byRuleIncrement(@, result.rule)]
    ELSE [st EXCEPT !.total = @ + 1, !.skipped = @ + 1]

\* A handler that writes result.rewritten without testing the result.
handleBashUnguarded(ev, result) ==
    /\ stats.total < MaxTotal
    /\ event' = [ev EXCEPT !.command = result.rewritten]
    /\ stats' = countResult(stats, result)

\* The tool_call handler past its early returns: result is
\* tryRewrite(command); the command is replaced only by a result.
handleBash(ev, result) ==
    /\ stats.total < MaxTotal
    /\ event' = [ev EXCEPT !.command = IF result.ok THEN result.rewritten ELSE @]
    /\ stats' = countResult(stats, result)

\* A tool_call handler without the early return on the toggle.
ToolCallAlways(ev) ==
    /\ original' = ev.command
    /\ IF rtkAvailable /\ ev.toolName = "bash" /\ ev.isString /\ Len(ev.command) # 0
       THEN handleBash(ev, tryRewrite(ev.command))
       ELSE event' = ev /\ stats' = stats
    /\ notice' = noNotice
    /\ UNCHANGED <<rtkAvailable, enabled, warnings, status, harnessVars>>

\* pi.on("tool_call"): the handler is registered only when rtk is available;
\* it returns early when disabled, for another tool, and for a command that
\* is no string or is empty.
ToolCall(ev) ==
    /\ original' = ev.command
    /\ IF rtkAvailable /\ enabled /\ ev.toolName = "bash"
          /\ ev.isString /\ Len(ev.command) # 0
       THEN handleBash(ev, tryRewrite(ev.command))
       ELSE event' = ev /\ stats' = stats
    /\ notice' = noNotice
    /\ UNCHANGED <<rtkAvailable, enabled, warnings, status, harnessVars>>

\* A session_start handler that leaves the rule counts.
SessionStartKeepsRules ==
    /\ IF rtkAvailable
       THEN /\ stats' = [stats EXCEPT !.total = 0, !.skipped = 0]
            /\ warnings' = warnings
            /\ notice' = noNotice
       ELSE /\ warnings < MaxWarnings
            /\ warnings' = warnings + 1
            /\ notice' = Notice("warning", "rtk-rewrite: rtk not found on PATH", 0, 0, 0, <<>>)
            /\ stats' = stats
    /\ UNCHANGED <<rtkAvailable, enabled, event, original, status, harnessVars>>

\* pi.on("session_start"): the warning when rtk is missing, the reset of the
\* statistics otherwise.
SessionStart ==
    /\ IF rtkAvailable
       THEN stats' = emptyStats /\ warnings' = warnings /\ notice' = noNotice
       ELSE /\ warnings < MaxWarnings
            /\ warnings' = warnings + 1
            /\ notice' = Notice("warning", "rtk-rewrite: rtk not found on PATH", 0, 0, 0, <<>>)
            /\ stats' = stats
    /\ UNCHANGED <<rtkAvailable, enabled, event, original, status, harnessVars>>

\* /rtk:toggle, registered only when rtk is available.
Toggle ==
    /\ rtkAvailable
    /\ enabled' = ~enabled
    /\ notice' = Notice("info", IF enabled' THEN "RTK rewrite enabled" ELSE "RTK rewrite disabled",
                        0, 0, 0, <<>>)
    /\ status' = IF enabled' THEN "" ELSE "RTK off"
    /\ UNCHANGED <<rtkAvailable, stats, event, original, warnings, harnessVars>>

\* /rtk, registered only when rtk is available: the report of the session's
\* counts, the rules by falling count.
ShowStats ==
    /\ rtkAvailable
    /\ notice' = Notice("info",
                        IF enabled THEN "RTK Rewrite - enabled" ELSE "RTK Rewrite - DISABLED",
                        stats.total, stats.total - stats.skipped, stats.skipped,
                        sortByCount(stats.byRule))
    /\ UNCHANGED <<rtkAvailable, enabled, stats, event, original, warnings, status, harnessVars>>

Init == ExtInit /\ HarnessIdle

Next ==
    \/ \E ev \in Events : ToolCall(ev)
    \/ SessionStart
    \/ Toggle
    \/ ShowStats

Spec == Init /\ [][Next]_vars

\* ------------------------------------------------------------------------
\* C3: the tool_call handler and event.input.command
\* ------------------------------------------------------------------------

\* What C3 says of the event the handler left, given result, the value of
\* tryRewrite on the command as it was delivered.
CommandFollows(result) ==
    /\ ~result.ok => event.command = original
    /\ event.command # original => result.ok /\ event.command = result.rewritten

\* C3: whenever tryRewrite returns null the handler leaves event.input.command
\* as it was delivered, and a command that was changed is exactly
\* result.rewritten.
C3_CommandUnchangedOrRewritten == CommandFollows(tryRewrite(original))

\* C3 witness: a bash command was replaced, after another one was skipped.
C3_Witness ==
    /\ event.toolName = "bash"
    /\ event.command # original
    /\ stats.skipped > 0

\* ------------------------------------------------------------------------
\* The rewrite engine called on its own
\* ------------------------------------------------------------------------

\* The harness before a call of the engine on one of the inputs.
HarnessInit(inputs) ==
    /\ ExtInit
    /\ rtkAvailable
    /\ pc = "call"
    /\ arg \in inputs
    /\ ret = Null

\* The physical lines of the multi-line inputs.
LineVocab ==
    {"rtk ls", "git status", "  ls -la", "# note", "", "echo hi",
     "cat <<EOF", "grep -r \"<<\" src", "cat a \\", "\tFOO=1 cat x", "rtk\tgain"}

\* The inputs of exactly n lines.
RECURSIVE LinesOf(_)
LinesOf(n) ==
    IF n <= 1 THEN LineVocab
    ELSE {a \o "\n" \o l : a \in LinesOf(n - 1), l \in LineVocab}

\* The inputs of up to n lines.
LinesUpTo(n) == UNION {LinesOf(k) : k \in 1..n}

RewriteInputs == LinesUpTo(MaxLines)

\* tryRewrite(arg)
CallTryRewrite ==
    /\ pc = "call"
    /\ ret' = tryRewrite(arg)
    /\ pc' = "done"
    /\ UNCHANGED <<arg, extVars>>

InitRewrite == HarnessInit(RewriteInputs)

NextRewrite == CallTryRewrite

SpecRewrite == InitRewrite /\ [][NextRewrite]_vars

\* s begins with rtk followed by whitespace.
BeginsWithRtk(s) == Upto(s, 3) = "rtk" /\ Ch(s, 4) \in {" ", "\t", "\n"}

\* The first physical line of s.
FirstLine(s) == splitLines(s)[1]

\* C1 as stated: every input that begins with rtk and whitespace, single-line
\* or multi-line, makes tryRewrite return null.
C1_RtkInputNeverRewritten ==
    (pc = "done" /\ BeginsWithRtk(arg)) => ret = Null

\* C1 as the code has it: a single-line input that begins with rtk and
\* whitespace makes tryRewrite return null; in a multi-line input that begins
\* so the first line is never altered, while later lines are still rewritten.
C1_RtkLineNeverRewritten ==
    (pc = "done" /\ BeginsWithRtk(arg)) =>
        IF ~includes(arg, "\n") THEN ret = Null
        ELSE ret.ok => FirstLine(ret.rewritten) = FirstLine(arg)

\* C1 witness: a multi-line input that begins with rtk was rewritten.
C1_Witness == pc = "done" /\ BeginsWithRtk(arg) /\ includes(arg, "\n") /\ ret.ok

\* C2: every input that contains << anywhere makes tryRewrite return null.
C2_HeredocNeverRewritten ==
    (pc = "done" /\ includes(arg, "<<")) => ret = Null

\* C2 witness: a multi-line input with a heredoc on one line and a line a
\* rule matches got null.
C2_Witness == pc = "done" /\ arg = "cat <<EOF\ngit status" /\ ret = Null

\* The logical lines C7 and C22 speak of: a physical line that ends with a
\* backslash is joined to the line after it, newline kept; a last line that
\* ends with a backslash has no line after it and is kept as it is.
RECURSIVE LogicalLines(_, _, _)
LogicalLines(lines, k, cur) ==
    IF k > Len(lines) THEN <<>>
    ELSE IF endsWithStr(lines[k], "\\") /\ k < Len(lines)
    THEN LogicalLines(lines, k + 1, cur \o lines[k] \o "\n")
    ELSE <<cur \o lines[k]>> \o LogicalLines(lines, k + 1, "")

\* The line C7 expects in the output for the logical line ln, result being
\* what the single-line engine gives for ln trimmed.
ExpectedLine(ln, result) ==
    IF trimStart(ln) = "" \/ Ch(trimStart(ln), 1) = "#" \/ ~result.ok THEN ln
    ELSE Upto(ln, Len(ln) - Len(trimStart(ln))) \o result.rewritten

\* The lines C7 expects for the logical lines.
ExpectedLines(logical) ==
    [k \in 1..Len(logical) |->
        ExpectedLine(logical[k], tryRewriteSingle(trimStart(logical[k])))]

\* ret is what C7 expects for the logical lines and the lines expected.
IsPerLine(logical, expected) ==
    IF expected = logical THEN ret = Null
    ELSE ret.ok /\ ret.rewritten = join(expected, "\n")

\* C7: for a multi-line input without <<, every blank line, comment line and
\* line the single-line engine leaves is byte-identical in the output, every
\* other line is its indent and the rewrite of the trimmed line, the number and
\* order of lines is unchanged, and the result is null when no line was
\* rewritten.
C7_PerLineRewrite ==
    (pc = "done" /\ includes(arg, "\n") /\ ~includes(arg, "<<")) =>
        /\ IsPerLine(LogicalLines(splitLines(arg), 1, ""),
                     ExpectedLines(LogicalLines(splitLines(arg), 1, "")))
        /\ ret.ok => Len(splitLines(ret.rewritten)) = Len(splitLines(arg))

\* ------------------------------------------------------------------------
\* The single-line engine called on its own
\* ------------------------------------------------------------------------

\* Environment prefixes of the sample commands.
EnvPrefixes == {"", "FOO=bar ", "A=1  B_2=x ", "KEY=val "}

\* Command bodies: at least one for every rule of the table, and some no
\* rule rewrites.
SampleBodies ==
    {"git status", "gh pr list", "gh\tpr list", "cargo build", "cargo +nightly test",
     "cat a.txt", "grep -rn foo src", "rg foo", "ls -la", "tree src/",
     "find . -name \"*.ts\"", "find /tmp -type f", "diff a b", "head -5 f.txt",
     "npx vitest run", "pnpm test", "npm test", "npm run build",
     "npx vue-tsc --noEmit", "pnpm tsc", "tsc -p .", "pnpm lint", "npx eslint .",
     "prettier --check .", "npx playwright test", "npx prisma generate",
     "docker compose up", "docker ps", "kubectl get pods", "curl http://x",
     "wget http://x", "pnpm list", "pytest -q", "python -m pytest", "ruff check .",
     "pip list", "uv pip list", "go test ./...", "go build", "go vet",
     "golangci-lint run", "echo hi", "git clone u", "rtk git status"}

EnvInputs == {p \o b : p \in EnvPrefixes, b \in SampleBodies}

\* git commands: global flags, then a sub-command.
GitFlagVocab ==
    {"-C /tmp ", "-c a=b ", "--no-pager ", "--git-dir=/my-c ", "--bare ", "-p "}

GitSubVocab == {"status", "log --oneline", "clone url", "checkout -b x", "stash-c x"}

\* The sequences of exactly n global flags.
RECURSIVE GitFlagsOf(_)
GitFlagsOf(n) ==
    IF n <= 0 THEN {""}
    ELSE {f \o g : f \in GitFlagsOf(n - 1), g \in GitFlagVocab}

GitInputs ==
    {"git " \o f \o b : f \in UNION {GitFlagsOf(k) : k \in 0..MaxFlags}, b \in GitSubVocab}

\* head commands: the line count in both forms, then the rest.
HeadDashes == {"-", "--lines="}

HeadCounts == {"5", "20"}

HeadRests ==
    {"file.txt", "file.txt | wc -l", "a.txt > out.txt", "f.txt && ls", "'a|b.txt'",
     "\"x y.txt\"", "a.txt b.txt"}

HeadInputs == {"head " \o d \o n \o " " \o r : d \in HeadDashes, n \in HeadCounts, r \in HeadRests}

\* grep -rn PATTERN PATH, the pattern bare or quoted.
GrepProgs == {"grep", "rg"}

GrepPatterns == {"pattern", "TODO", "foo.*bar"}

GrepQuotes == {"", "\"", "'"}

GrepPaths == {"dir/", "src", "."}

GrepInputs ==
    {g \o " -rn " \o q \o pat \o q \o " " \o d :
        g \in GrepProgs, q \in GrepQuotes, pat \in GrepPatterns, d \in GrepPaths}

SingleInputs == EnvInputs \cup GitInputs \cup HeadInputs \cup GrepInputs

\* tryRewriteSingle(arg)
CallTryRewriteSingle ==
    /\ pc = "call"
    /\ ret' = tryRewriteSingle(arg)
    /\ pc' = "done"
    /\ UNCHANGED <<arg, extVars>>

InitSingle == HarnessInit(SingleInputs)

NextSingle == CallTryRewriteSingle

SpecSingle == InitSingle /\ [][NextSingle]_vars

\* What C4 says of the split sp of arg and of ret.
PrefixKept(sp) ==
    /\ sp[1] \o sp[2] = arg
    /\ ret.ok => startsWithStr(ret.rewritten, sp[1] \o "rtk ")

\* C4: splitEnvPrefix returns a prefix and a body that give back the input,
\* and every result of tryRewriteSingle is that prefix followed by a
\* rewritten body that starts with "rtk ".
C4_EnvPrefixKept ==
    pc = "done" =>
        /\ PrefixKept(splitEnvPrefix(arg))
        /\ \A p \in EnvPrefixes, b \in SampleBodies :
              (arg = p \o b /\ ret.ok) => startsWithStr(ret.rewritten, p \o "rtk ")

\* C4 witness: a command with two assignments in front was rewritten.
C4_Witness ==
    /\ pc = "done"
    /\ arg = "A=1  B_2=x git status"
    /\ ret = RewriteResult("A=1  B_2=x rtk git status", "git")

\* The allow-list as C6 gives it.
ClaimGitSubcmds ==
    {"status", "diff", "log", "add", "commit", "push", "pull", "branch", "fetch",
     "stash", "show"}

\* A token of the form --key=value.
IsKeyValueToken(t) ==
    /\ HasAt(t, "--", 1)
    /\ \E k \in 4..(Len(t) - 1) : Ch(t, k) = "="

\* The operative sub-command C6 speaks of, reading the words of s from
\* position i: a word -C or -c goes with the word after it, a --key=value word
\* and the four named flags go alone, the first word left is the sub-command.
RECURSIVE OperativeFrom(_, _)
OperativeFrom(s, i) ==
    LET a  == SkipSpace(s, i)
        e  == SkipNonSpace(s, a)
        a2 == SkipSpace(s, e)
        e2 == SkipNonSpace(s, a2)
    IN  IF e = a THEN ""
        ELSE IF Slice(s, a, e) \in {"-C", "-c"} /\ e2 > a2 THEN OperativeFrom(s, e2)
        ELSE IF \/ IsKeyValueToken(Slice(s, a, e))
                \/ Slice(s, a, e) \in {"--no-pager", "--no-optional-locks", "--bare",
                                       "--literal-pathspecs"}
        THEN OperativeFrom(s, e)
        ELSE Slice(s, a, e)

\* C6: a body that starts with git and white space is rewritten if and only if
\* its operative sub-command is in the allow-list, and the rewrite is "rtk "
\* followed by the unchanged body.
C6_GitAllowList ==
    (pc = "done" /\ WordSpace(arg, "git") /\ ~includes(arg, "<<") /\ ~includes(arg, "/rtk ")) =>
        /\ ret.ok <=> OperativeFrom(arg, 4) \in ClaimGitSubcmds
        /\ ret.ok => ret.rewritten = "rtk " \o arg

\* The option --max-lines n stands in the command part of the split sp, in
\* front of the first unquoted shell operator, and not in the tail.
MaxLinesInCommand(sp, n) ==
    /\ endsWithStr(trimEnd(sp[1]), " --max-lines " \o n)
    /\ ~includes(sp[2], "--max-lines")

\* C9: for every body head -N <rest> or head --lines=N <rest> the rewrite is
\* rtk read with --max-lines N placed in front of the first unquoted shell
\* operator of <rest>.
C9_MaxLinesBeforeOperator ==
    pc = "done" =>
        \A d \in HeadDashes, n \in HeadCounts, r \in HeadRests :
            arg = "head " \o d \o n \o " " \o r =>
                /\ ret.ok
                /\ startsWithStr(ret.rewritten, "rtk read ")
                /\ MaxLinesInCommand(splitAtShellOp(ret.rewritten), n)

\* C10 as stated: grep -rn PATTERN PATH becomes rtk grep PATTERN PATH, with
\* neither r nor n among the flags.
C10_GrepDropsRecursionAndN ==
    pc = "done" =>
        \A g \in GrepProgs, q \in GrepQuotes, pat \in GrepPatterns, d \in GrepPaths :
            arg = g \o " -rn " \o q \o pat \o q \o " " \o d =>
                ret = RewriteResult("rtk grep " \o pat \o " " \o d, "grep/rg")

\* C10 as the code has it: grep -rn PATTERN PATH becomes
\* rtk grep PATTERN PATH -n; the recursion flag is dropped, -n is kept and
\* moved behind the path.
C10_GrepDropsRecursionKeepsN ==
    pc = "done" =>
        \A g \in GrepProgs, q \in GrepQuotes, pat \in GrepPatterns, d \in GrepPaths :
            arg = g \o " -rn " \o q \o pat \o q \o " " \o d =>
                ret = RewriteResult("rtk grep " \o pat \o " " \o d \o " -n", "grep/rg")

\* C10 witness: grep -rn with a quoted pattern and a path was translated.
C10_Witness ==
    /\ pc = "done"
    /\ arg = "grep -rn \"pattern\" dir/"
    /\ ret.rewritten = "rtk grep pattern dir/ -n"

\* ------------------------------------------------------------------------
\* splitEnvPrefix called on a prefix and a body
\* ------------------------------------------------------------------------

\* IDENTIFIER=value tokens.
AssignVocab == {"FOO=bar", "_x1=", "A=b=c"}

\* A token followed by spaces, and a token followed by a tab.
SpaceUnits == {t \o sp : t \in AssignVocab, sp \in {" ", "  "}}

TabUnits == {t \o "\t" : t \in AssignVocab}

\* The prefixes of exactly n units.
RECURSIVE PrefixesOf(_, _)
PrefixesOf(units, n) ==
    IF n <= 1 THEN units
    ELSE {p \o u : p \in PrefixesOf(units, n - 1), u \in units}

\* The prefixes whose tokens are followed by spaces only.
SpacePrefixes == UNION {PrefixesOf(SpaceUnits, k) : k \in 1..MaxAssign}

\* The prefixes whose tokens are followed by spaces or a tab.
ClaimPrefixes == UNION {PrefixesOf(SpaceUnits \cup TabUnits, k) : k \in 1..MaxAssign}

\* Bodies with no assignment and space at the start, bodies that start with
\* one, and bodies that start with a space.
PlainBodies == {"", "ls -la", "git status", "A=1", "1A=2 x", "=x y", "echo A=1 b"}

AssignBodies == {"BAZ=qux ls", "X= y"}

SpaceBodies == {" ls", " A=1 ls"}

EnvPairs ==
    (ClaimPrefixes \cup {""}) \X (PlainBodies \cup AssignBodies \cup SpaceBodies)

\* splitEnvPrefix(P + B) for arg = <<P, B>>
CallSplitEnvPrefix ==
    /\ pc = "call"
    /\ ret' = splitEnvPrefix(arg[1] \o arg[2])
    /\ pc' = "done"
    /\ UNCHANGED <<arg, extVars>>

InitEnv == HarnessInit(EnvPairs)

NextEnv == CallSplitEnvPrefix

SpecEnv == InitEnv /\ [][NextEnv]_vars

\* C5 as stated: for any prefix P of IDENTIFIER=value tokens each followed by
\* white space and any body B, splitEnvPrefix(P + B) is (P, B); a string with
\* no leading assignment gives the empty prefix and the string.
C5_SplitInvertsConcat ==
    pc = "done" =>
        /\ arg[1] \in ClaimPrefixes => ret = arg
        /\ (arg[1] = "" /\ arg[2] \notin AssignBodies) => ret = <<"", arg[2]>>

\* C5 as the code has it: the same for a prefix whose tokens are each followed
\* by one or more space characters and a body that starts neither with a space
\* nor with an assignment followed by a space.
C5_SplitInvertsSpacedConcat ==
    pc = "done" =>
        /\ (arg[1] \in SpacePrefixes /\ arg[2] \in PlainBodies) => ret = arg
        /\ (arg[1] = "" /\ arg[2] \notin AssignBodies) => ret = <<"", arg[2]>>

\* C5 witness: a prefix of two assignments was split from a body that is an
\* assignment with no space behind it.
C5_Witness ==
    /\ pc = "done"
    /\ arg = <<"FOO=bar  _x1= ", "A=1">>
    /\ ret = arg

\* ------------------------------------------------------------------------
\* The engine of the prefix-substitution rule table called on its own
\* ------------------------------------------------------------------------

\* First commands with flags and arguments, for every rule of the table.
PrefixBodies ==
    {"git -C /tmp status -s", "gh pr list --limit 5", "cargo +nightly test --all",
     "cat a.txt b.txt", "grep -rn foo src", "grep -i --include=\"*.ts\" \"a|b\" .",
     "rg -n TODO", "ls -la /tmp", "tree -L 2 src/", "find . -name \"*.ts\" -type f",
     "find /tmp -maxdepth 2", "diff -u a b", "head -5 f.txt", "npx vitest run --coverage",
     "vitest --ui", "pnpm test --watch", "npm test -- -t x", "npm run build --if-present",
     "npx vue-tsc --noEmit", "pnpm tsc --noEmit", "tsc -p .", "pnpm lint --fix",
     "npx eslint src/", "prettier --check .", "pnpm playwright test --headed",
     "npx prisma migrate dev", "docker compose up -d", "docker ps -a",
     "kubectl get pods -n kube-system", "curl -s http://x", "wget -q http://x",
     "pnpm outdated --long", "pytest -q tests/", "python -m pytest -k a",
     "ruff format --check .", "pip install -r req.txt", "uv pip show x",
     "go test ./... -run X", "go build -o out .", "go vet ./...",
     "golangci-lint run --fix", "echo hi", "git clone u"}

\* Pipe, redirect and chain tails.
ShellTails == {"", " | wc -l", " > out.txt 2>&1", " && echo ok", " || true"}

PrefixInputs == {b \o t : b \in PrefixBodies, t \in ShellTails}

\* tryRewrite(arg) of the prefix-substitution variant
CallTryRewritePrefix ==
    /\ pc = "call"
    /\ ret' = tryRewritePrefix(arg)
    /\ pc' = "done"
    /\ UNCHANGED <<arg, extVars>>

InitPrefix == HarnessInit(PrefixInputs)

NextPrefix == CallTryRewritePrefix

SpecPrefix == InitPrefix /\ [][NextPrefix]_vars

\* The leading text a prefix rule takes away and the text it puts there.
PrefixSubstitutions ==
    {<<"", "rtk ">>, <<"gh ", "rtk gh ">>, <<"cat ", "rtk read ">>,
     <<"rg ", "rtk grep ">>, <<"grep ", "rtk grep ">>, <<"ls", "rtk ls">>,
     <<"tree", "rtk tree">>, <<"find ", "rtk find ">>, <<"diff ", "rtk diff ">>,
     <<"vitest", "rtk vitest run">>, <<"npx vitest run", "rtk vitest run">>,
     <<"pnpm test", "rtk vitest run">>, <<"npm test", "rtk npm test">>,
     <<"npm run ", "rtk npm ">>, <<"npx vue-tsc", "rtk tsc">>,
     <<"pnpm tsc", "rtk tsc">>, <<"tsc", "rtk tsc">>, <<"pnpm lint", "rtk lint">>,
     <<"npx eslint", "rtk lint">>, <<"prettier", "rtk prettier">>,
     <<"pnpm playwright", "rtk playwright">>, <<"npx prisma", "rtk prisma">>,
     <<"docker ", "rtk docker ">>, <<"kubectl ", "rtk kubectl ">>,
     <<"curl ", "rtk curl ">>, <<"wget ", "rtk wget ">>, <<"pnpm ", "rtk pnpm ">>,
     <<"pytest", "rtk pytest">>, <<"python -m pytest", "rtk pytest">>,
     <<"ruff ", "rtk ruff ">>, <<"pip ", "rtk pip ">>, <<"uv pip ", "rtk pip ">>,
     <<"go test", "rtk go test">>, <<"go build", "rtk go build">>,
     <<"go vet", "rtk go vet">>, <<"golangci-lint", "rtk golangci-lint">>}

\* C8: in the prefix-substitution table every rule other than head gives a
\* replacement prefix followed by a byte-identical suffix of the body, flags,
\* arguments and any pipe, redirect or chain tail where they were.
C8_PrefixThenSameSuffix ==
    (pc = "done" /\ ret.ok /\ ret.rule # "head -> rtk read") =>
        /\ \E pr \in PrefixSubstitutions :
              /\ startsWithStr(arg, pr[1])
              /\ ret.rewritten = pr[2] \o From(arg, Len(pr[1]) + 1)
        /\ splitAtShellOp(ret.rewritten)[2] = splitAtShellOp(arg)[2]
        /\ \A b \in PrefixBodies, t \in ShellTails :
              arg = b \o t => endsWithStr(ret.rewritten, t)

\* C8 witness: a grep with flags, a quoted pattern and a pipe tail went
\* through the grep/rg rule.
C8_Witness ==
    /\ pc = "done"
    /\ arg = "grep -i --include=\"*.ts\" \"a|b\" . | wc -l"
    /\ ret = RewriteResult("rtk grep -i --include=\"*.ts\" \"a|b\" . | wc -l", "grep/rg")

\* ------------------------------------------------------------------------
\* The engine on find invocations
\* ------------------------------------------------------------------------

\* A segment of a command line is present when it is not empty.
IsSegment(s) == s # ""

\* The present segments, separated by single spaces.
Words(segs) == join(SelectSeq(segs, IsSegment), " ")

FindPaths == {".", "src"}

FindNameFlags == {"-name", "-iname"}

\* <<the pattern as typed, the pattern after quote removal>>
FindPatterns == {<<"*.ts", "*.ts">>, <<"\"*.gd\"", "*.gd">>, <<"'Makefile'", "Makefile">>}

FindTypes == {"", "f", "d", "l"}

FindDepths == {"", "-maxdepth 2", "-mindepth 1"}

\* <<the text after the last argument, the operator tail it leaves>>
FindTails == {<<"", "">>, <<" | wc -l", " | wc -l">>, <<"|sort", " |sort">>,
              <<"  > out.txt", " > out.txt">>}

FindLayouts == {"path-name-type-depth", "type-depth-path-name", "depth-name-type-path"}

TypeSegment(t) == IF t = "" THEN "" ELSE "-type " \o t

\* The arguments of a find invocation in one of the layouts.
FindArgs(layout, path, name, type, depth) ==
    IF layout = "path-name-type-depth" THEN Words(<<path, name, type, depth>>)
    ELSE IF layout = "type-depth-path-name" THEN Words(<<type, depth, path, name>>)
    ELSE Words(<<depth, name, type, path>>)

\* The find invocations of the supported form: one path, one name test, an
\* optional type test, an optional depth option.
SimpleFinds ==
    {[cmd |-> "find " \o FindArgs(l, p, nf \o " " \o pat[1], TypeSegment(t), d) \o tl[1],
      form |-> "simple", pattern |-> pat[2], path |-> p, fileType |-> t, tail |-> tl[2]] :
        l \in FindLayouts, p \in FindPaths, nf \in FindNameFlags, pat \in FindPatterns,
        t \in FindTypes, d \in FindDepths, tl \in FindTails}

\* Arguments that are outside the supported form.
OtherFindArgs ==
    {". -name x -exec rm {} +", ". -execdir ls {} + -name x", ". -name x -delete",
     ". -print0 -name x", ". -name x -ok rm {} +", ". -name x -fls out", ". -fprint out -name x",
     ". -name x -newer ref", ". -size +1k -name x", ". -name x -print", ". -name a -o -name b",
     ". -not -name x", "-L . -name x", ". -name x -type", ". -name x -maxdepth",
     ". -name x -mindepth", ". -name x -iname", ". -iname x -name", ". -name",
     ". -type f", ".", "src -maxdepth 2", ". -type f -mindepth 1"}

OtherFinds ==
    {[cmd |-> "find " \o a \o tl[1],
      form |-> "other", pattern |-> "", path |-> "", fileType |-> "", tail |-> tl[2]] :
        a \in OtherFindArgs, tl \in FindTails}

FindInputs == SimpleFinds \cup OtherFinds

\* One call of the engine on the command of a prepared input.
CallTryRewriteSingleOn ==
    /\ pc = "call"
    /\ ret' = tryRewriteSingle(arg.cmd)
    /\ pc' = "done"
    /\ UNCHANGED <<arg, extVars>>

InitFind == HarnessInit(FindInputs)

NextFind == CallTryRewriteSingleOn

SpecFind == InitFind /\ [][NextFind]_vars

\* The rewritten command of a supported find invocation.
FindImage(in) ==
    "rtk find " \o in.pattern \o " " \o in.path
        \o (IF in.fileType \in {"f", "d"} THEN " -t " \o in.fileType ELSE "")
        \o in.tail

\* C11: a find invocation with one search path, a -name or -iname test, an
\* optional -type test and an optional -maxdepth or -mindepth option is
\* rewritten to rtk find, the pattern, the path, then -t and the type exactly
\* when the type is f or d, then the operator tail.
C11_FindTranslated ==
    (pc = "done" /\ arg.form = "simple") => ret = RewriteResult(FindImage(arg), "find")

\* A find with a name test behind a depth option and a type test that is not
\* forwarded has been rewritten in front of a pipe.
C11_Witness ==
    /\ pc = "done"
    /\ arg.cmd = "find -mindepth 1 -iname \"*.gd\" -type l src|sort"
    /\ ret = RewriteResult("rtk find *.gd src |sort", "find")

\* The tokens of the command part of a find invocation.
FindTokens(cmd) == shellTokenise(StripProg(splitAtShellOp(cmd)[1], "find"))

FindValueFlags == {"-name", "-iname", "-type", "-maxdepth", "-mindepth"}

\* Every token from i on that starts with a dash is one of the five flags
\* followed by a value.
RECURSIVE OnlyValuedFlags(_, _)
OnlyValuedFlags(tokens, i) ==
    IF i > Len(tokens) THEN TRUE
    ELSE IF tokens[i] \in FindValueFlags /\ i + 1 <= Len(tokens)
    THEN OnlyValuedFlags(tokens, i + 2)
    ELSE IF startsWithStr(tokens[i], "-") THEN FALSE
    ELSE OnlyValuedFlags(tokens, i + 1)

\* Some -name or -iname from i on has a value.
RECURSIVE HasNameValue(_, _)
HasNameValue(tokens, i) ==
    IF i > Len(tokens) THEN FALSE
    ELSE IF tokens[i] \in FindValueFlags /\ i + 1 <= Len(tokens)
    THEN (tokens[i] \in {"-name", "-iname"}) \/ HasNameValue(tokens, i + 2)
    ELSE HasNameValue(tokens, i + 1)

MustRefuseFind(cmd) ==
    LET tokens == FindTokens(cmd)
    IN  \/ \E k \in 1..Len(tokens) : tokens[k] \in dangerous
        \/ ~OnlyValuedFlags(tokens, 1)
        \/ ~HasNameValue(tokens, 1)

\* C12: a find invocation is never rewritten when its command part has a
\* side-effect flag, any other dash token that is not one of -name, -iname,
\* -type, -maxdepth, -mindepth with a value, or no name value.
C12_FindRefused ==
    (pc = "done" /\ MustRefuseFind(arg.cmd)) => ret = Null

\* ------------------------------------------------------------------------
\* The engine on grep and rg invocations
\* ------------------------------------------------------------------------

\* <<a flag as typed (with its value, if it takes one), what is emitted for it>>
GrepFlagForms ==
    {<<"", "">>, <<"-rn", "-n">>, <<"-rR", "">>, <<"-Rin", "-in">>, <<"-il", "-il">>,
     <<"-r", "">>, <<"-R", "">>, <<"--recursive", "">>,
     <<"--include=*.ts", "--glob *.ts">>, <<"--include \"*.js\"", "--glob *.js">>,
     <<"-i", "-i">>, <<"-A 3", "-A 3">>, <<"--color=never", "--color=never">>,
     <<"-e bar", "-e bar">>, <<"-5", "-5">>}

SecondGrepFlagForms ==
    {<<"", "">>, <<"-rn", "-n">>, <<"-r", "">>, <<"--include=*.ts", "--glob *.ts">>,
     <<"-A 3", "-A 3">>, <<"-i", "-i">>}

\* <<the pattern as typed, the pattern after quote removal>>
GrepPatternForms == {<<"foo", "foo">>, <<"'TODO'", "TODO">>}

\* The non-flag tokens after the pattern, in order.
GrepOperands == <<"src", "lib", "test">>

GrepTails == {<<"", "">>, <<" | wc", " | wc">>, <<"|sort", " |sort">>}

GrepLayouts == {"front", "split", "back"}

\* The first n non-flag tokens of a command whose pattern is typed as p.
Operands(p, n) == IF n = 0 THEN <<>> ELSE <<p>> \o SubSeq(GrepOperands, 1, n - 1)

\* The arguments of a grep invocation: flags a and b around the non-flag
\* tokens.
GrepArgs(layout, a, b, ops) ==
    IF layout = "front" THEN Words(<<a, b>> \o ops)
    ELSE IF layout = "back" THEN Words(ops \o <<a, b>>)
    ELSE IF ops = <<>> THEN Words(<<a, b>>)
    ELSE Words(<<a, Head(ops), b>> \o Tail(ops))

GrepCommand(prog, args, tail) ==
    prog \o (IF args = "" THEN "" ELSE " " \o args) \o tail

GrepCases ==
    {[cmd |-> GrepCommand(g, GrepArgs(l, a[1], b[1], Operands(p[1], n)), tl[1]),
      positionals |-> n, pattern |-> p[2], path |-> IF n >= 2 THEN GrepOperands[1] ELSE "",
      extra |-> Words(<<a[2], b[2]>>), nflags |-> Len(SelectSeq(<<a[1], b[1]>>, IsSegment)),
      tail |-> tl[2]] :
        g \in {"grep", "rg"}, l \in GrepLayouts, a \in GrepFlagForms,
        b \in SecondGrepFlagForms, p \in GrepPatternForms, n \in 0..(Len(GrepOperands) + 1),
        tl \in GrepTails}

InitGrep == HarnessInit(GrepCases)

NextGrep == CallTryRewriteSingleOn

SpecGrep == InitGrep /\ [][NextGrep]_vars

\* C13: a grep or rg command part with three or more non-flag tokens is
\* not translated and the engine returns null.
C13_ThreePositionalsRefused ==
    (pc = "done" /\ arg.positionals >= 3) => ret = Null

\* A grep with a flag, a value-taking flag and three non-flag tokens was
\* refused.
C13_Witness ==
    /\ pc = "done"
    /\ arg.cmd = "grep -rn foo -A 3 src lib | wc"
    /\ arg.positionals = 3
    /\ ret = Null

\* C18: a grep or rg command part without a pattern token after the
\* program name is not translated and the engine returns null.
C18_NoPatternRefused ==
    (pc = "done" /\ arg.positionals = 0) => ret = Null

\* The rewritten command of a grep invocation with a pattern and at most
\* one path.
GrepImage(in) ==
    "rtk grep " \o in.pattern
        \o (IF in.path = "" THEN "" ELSE " " \o in.path)
        \o (IF in.extra = "" THEN "" ELSE " " \o in.extra)
        \o in.tail

\* C20: the extra arguments of a translated grep are the images of the
\* flags in their order, after pattern and path: a cluster without its r
\* and R letters (nothing when none is left), nothing for -r, -R and
\* --recursive, --glob G for --include=G and --include G, every other flag
\* unchanged.
C20_GrepFlagImages ==
    (pc = "done" /\ arg.positionals \in {1, 2} /\ arg.nflags >= 1) =>
        ret = RewriteResult(GrepImage(arg), "grep/rg")

\* A cluster with R was emitted without it, and --include with a quoted
\* glob as --glob, both behind pattern and path.
C20_Witness ==
    /\ pc = "done"
    /\ arg.cmd = "grep -Rin 'TODO' --include=*.ts src|sort"
    /\ ret = RewriteResult("rtk grep TODO src -in --glob *.ts |sort", "grep/rg")

\* ------------------------------------------------------------------------
\* The operator scanners
\* ------------------------------------------------------------------------

\* The loop of hasPipeOrRedirect from position i on.  The branch on the
\* backquote character is left out: no command of the model holds one.
RECURSIVE PipeScan(_, _, _, _, _)
PipeScan(cmd, i, inSingle, inDouble, escaped) ==
    IF i > Len(cmd) THEN FALSE
    ELSE LET ch == Ch(cmd, i)
             next == Ch(cmd, i + 1)
         IN  IF escaped THEN PipeScan(cmd, i + 1, inSingle, inDouble, FALSE)
             ELSE IF ch = "\\" THEN PipeScan(cmd, i + 1, inSingle, inDouble, TRUE)
             ELSE IF ch = "'" /\ ~inDouble
             THEN PipeScan(cmd, i + 1, ~inSingle, inDouble, FALSE)
             ELSE IF ch = "\"" /\ ~inSingle
             THEN PipeScan(cmd, i + 1, inSingle, ~inDouble, FALSE)
             ELSE IF inSingle \/ inDouble
             THEN PipeScan(cmd, i + 1, inSingle, inDouble, FALSE)
             ELSE IF ch = "|" /\ next # "|" THEN TRUE
             ELSE IF ch = ">" /\ next # "&" THEN TRUE
             ELSE IF ch = "<" /\ next = "(" THEN TRUE
             ELSE IF ch = "$" /\ next = "(" THEN TRUE
             ELSE IF ch = "&" /\ next = "&" THEN TRUE
             ELSE IF ch = "|" /\ next = "|" THEN TRUE
             ELSE PipeScan(cmd, i + 1, inSingle, inDouble, FALSE)

\* True when the command holds an unquoted pipe, redirection, substitution
\* or chaining operator.
hasPipeOrRedirect(cmd) ==
    IF /\ \A c \in {"|", ">", "<", "$"} : ~includes(cmd, c)
       /\ ~includes(cmd, "&&")
       /\ ~includes(cmd, "||")
    THEN FALSE
    ELSE PipeScan(cmd, 1, FALSE, FALSE, FALSE)

\* Commands whose only operator character is the pipe.
PipeHeads == {"grep ", "echo "}

PipeWords ==
    {"\"a|b\"", "'a|b'", "'a\\|b'", "\"a\\\"|b\"", "\"it's|x\"", "'say \"hi\"|x'",
     "'C:\\'", "\"a b\"", "x"}

PipeTails == {"", " file", " | wc -l", "|sort", " file || true"}

PipeInputs == {h \o w \o t : h \in PipeHeads, w \in PipeWords, t \in PipeTails}

\* Commands with one operator tail.
OperatorBodies == {"grep foo src", "grep foo", "find . -name x", "grep 'a;b' src", "ls"}

OperatorTails ==
    {"", " | wc", " && ls", " || true", "; ls", " > out", " >> out", " < in",
     " 2>/dev/null", " 2> err | wc", " >out 2>err", " 2>>log"}

OperatorInputs == {b \o t : b \in OperatorBodies, t \in OperatorTails}

ScanInputs == PipeInputs \cup OperatorInputs

CallHasPipeOrRedirect ==
    /\ pc = "call"
    /\ ret' = hasPipeOrRedirect(arg)
    /\ pc' = "pipe"
    /\ UNCHANGED <<arg, extVars>>

CallSplitAtShellOp ==
    /\ pc = "call"
    /\ ret' = splitAtShellOp(arg)
    /\ pc' = "split"
    /\ UNCHANGED <<arg, extVars>>

InitScan == HarnessInit(ScanInputs)

NextScan ==
    \/ CallHasPipeOrRedirect
    \/ CallSplitAtShellOp
    \/ CallTryRewriteSingle

SpecScan == InitScan /\ [][NextScan]_vars

\* The position of the first pipe character of cmd from i on that stands
\* outside quotes, 0 if there is none.  A backslash escapes the next
\* character, which then neither toggles a quote nor is an operator.
RECURSIVE FirstShellPipe(_, _, _)
FirstShellPipe(cmd, i, quote) ==
    IF i > Len(cmd) THEN 0
    ELSE LET ch == Ch(cmd, i)
         IN  IF ch = "\\" THEN FirstShellPipe(cmd, i + 2, quote)
             ELSE IF quote # ""
             THEN FirstShellPipe(cmd, i + 1, IF ch = quote THEN "" ELSE quote)
             ELSE IF ch = "\"" \/ ch = "'" THEN FirstShellPipe(cmd, i + 1, ch)
             ELSE IF ch = "|" THEN i
             ELSE FirstShellPipe(cmd, i + 1, "")

\* The pair a split at position p is to give; no split for p = 0.
SplitAt(cmd, p) ==
    IF p = 0 THEN <<cmd, "">> ELSE <<trimEnd(Upto(cmd, p - 1)), " " \o From(cmd, p)>>

\* C14: for a command whose pipe characters are all inside quotes
\* hasPipeOrRedirect is false and splitAtShellOp returns an empty tail; for
\* a command with an unquoted pipe hasPipeOrRedirect is true and
\* splitAtShellOp splits at it.
C14_QuotedPipeNotOperator ==
    arg \in PipeInputs =>
        /\ pc = "pipe" => ret = (FirstShellPipe(arg, 1, "") # 0)
        /\ pc = "split" => ret = SplitAt(arg, FirstShellPipe(arg, 1, ""))

\* The position of the first operator of cmd from i on, 0 if there is
\* none: an unquoted |, ;, <, >, && or a 2> that starts a word.
RECURSIVE FirstOperator(_, _, _)
FirstOperator(cmd, i, quote) ==
    IF i > Len(cmd) THEN 0
    ELSE LET ch == Ch(cmd, i)
         IN  IF quote # ""
             THEN FirstOperator(cmd, i + 1, IF ch = quote THEN "" ELSE quote)
             ELSE IF ch = "\"" \/ ch = "'" THEN FirstOperator(cmd, i + 1, ch)
             ELSE IF ch \in {"|", ";", ">", "<"} THEN i
             ELSE IF ch = "&" /\ Ch(cmd, i + 1) = "&" THEN i
             ELSE IF HasAt(cmd, "2>", i) /\ (i = 1 \/ IsSpace(Ch(cmd, i - 1))) THEN i
             ELSE FirstOperator(cmd, i + 1, "")

\* C19: splitAtShellOp returns the text before the first unquoted operator
\* among |, &&, ||, ;, >, >>, <, 2> and, as tail, one space and the suffix
\* from the operator on; the digit of 2> belongs to the tail, so the
\* redirection stands unchanged at the end of a rewritten command.
C19_SplitAtFirstOperator ==
    arg \in OperatorInputs =>
        /\ pc = "split" => ret = SplitAt(arg, FirstOperator(arg, 1, ""))
        /\ (pc = "done" /\ ret.ok /\ FirstOperator(arg, 1, "") # 0) =>
               endsWithStr(ret.rewritten, " " \o From(arg, FirstOperator(arg, 1, "")))

\* ------------------------------------------------------------------------
\* The extension: availability, toggle and session statistics
\* ------------------------------------------------------------------------

\* C15: when rtk was not available at load, no tool_call changes a command
\* and the warning is shown at most once, however many session_start
\* events occur.
C15_UnavailableWarnsOnce ==
    ~rtkAvailable => (event.command = original /\ warnings <= 1)

\* C16: rewriting starts enabled, only /rtk:toggle changes the flag, and
\* while it is disabled a tool_call leaves the command and every counter of
\* the statistics as they are.
C16_ToggleGovernsRewriting ==
    /\ enabled = TRUE
    /\ [][/\ enabled' # enabled => Toggle
          /\ (~enabled /\ \E ev \in Events : ToolCall(ev)) =>
                 (event'.command = original' /\ stats' = stats)]_vars

\* A rewritable bash command was delivered unchanged while rewriting was
\* switched off, and the counts made before stand.
C16_Witness ==
    /\ rtkAvailable
    /\ ~enabled
    /\ event.toolName = "bash"
    /\ original = "git status"
    /\ event.command = "git status"
    /\ notice = noNotice
    /\ stats.total > 0

\* The notification is the report of /rtk.
IsReport(n) == n.text \in {"RTK Rewrite - enabled", "RTK Rewrite - DISABLED"}

\* C17: after every session_start the statistics are total 0, skipped 0
\* and no rule counts, and a report shows the counts of the statistics as
\* they are, so counts of an earlier session never appear in a later one.
C17_SessionStartResets ==
    /\ [][SessionStart => stats' = emptyStats]_vars
    /\ [](IsReport(notice) =>
             /\ notice.seen = stats.total
             /\ notice.skipped = stats.skipped
             /\ notice.rewritten = stats.total - stats.skipped
             /\ notice.byRule = sortByCount(stats.byRule))

\* A command was rewritten and counted, a session started, and the report
\* asked for then shows no command.
C17_Witness ==
    /\ event.command = "rtk git status"
    /\ original = "git status"
    /\ stats = emptyStats
    /\ IsReport(notice)
    /\ notice.seen = 0
    /\ notice.byRule = <<>>

\* ------------------------------------------------------------------------
\* The engine on grep invocations with value-taking flags
\* ------------------------------------------------------------------------

\* <<a value-taking flag as typed, alone or as the end of a cluster, and
\*   the flag token that is to be emitted for it>>
ValueFlagForms ==
    {<<f, f>> : f \in argFlags}
    \cup {<<"-r" \o l, "-" \o l>> : l \in {"A", "B", "C", "m", "e", "f"}}
    \cup {<<"-n" \o l, "-n" \o l>> : l \in {"A", "C", "m"}}
    \cup {<<"-Rn" \o l, "-n" \o l>> : l \in {"A", "e"}}

\* <<the value as typed, the value after quote removal>>
FlagValues == {<<"3", "3">>, <<"bar", "bar">>, <<"'*.ts'", "*.ts">>}

ValueFlagLayouts == {"flag-pattern-path", "pattern-flag-path", "pattern-path-flag", "flag-pattern"}

ValueFlagArgs(layout, fv, p, d) ==
    IF layout = "flag-pattern-path" THEN Words(<<fv, p, d>>)
    ELSE IF layout = "pattern-flag-path" THEN Words(<<p, fv, d>>)
    ELSE IF layout = "pattern-path-flag" THEN Words(<<p, d, fv>>)
    ELSE Words(<<fv, p>>)

ValueFlagCases ==
    {[cmd |-> GrepCommand(g, ValueFlagArgs(l, f[1] \o " " \o v[1], p[1], "src"), tl[1]),
      standalone |-> f[1] \in argFlags,
      pattern |-> p[2], path |-> IF l = "flag-pattern" THEN "" ELSE "src",
      extra |-> f[2] \o " " \o v[2], tail |-> tl[2]] :
        g \in {"grep", "rg"}, l \in ValueFlagLayouts, f \in ValueFlagForms,
        v \in FlagValues, p \in GrepPatternForms, tl \in GrepTails}

InitGrepValue == HarnessInit(ValueFlagCases)

NextGrepValue == CallTryRewriteSingleOn

SpecGrepValue == InitGrepValue /\ [][NextGrepValue]_vars

\* C21: the token that follows a value-taking grep flag (-A, -B, -C, -m, -e,
\* -f, --glob), standing alone or ending a cluster of short flags, is
\* emitted unchanged directly after the flag and is neither the pattern nor
\* the path of the translated command.
C21_FlagValueFollowsFlag ==
    pc = "done" => ret = RewriteResult(GrepImage(arg), "grep/rg")

\* ------------------------------------------------------------------------
\* Continuation lines
\* ------------------------------------------------------------------------

\* mergeContLines(command.split("\n")), as tryRewrite calls it.
CallMergeContLines ==
    /\ pc = "call"
    /\ ret' = mergeContLines(splitLines(arg))
    /\ pc' = "merged"
    /\ UNCHANGED <<arg, extVars>>

InitMerge == HarnessInit(RewriteInputs)

NextMerge ==
    \/ CallMergeContLines
    \/ CallTryRewrite

SpecMerge == InitMerge /\ [][NextMerge]_vars

\* The number of newline characters of s.
Newlines(s) == Cardinality({i \in 1..Len(s) : Ch(s, i) = "\n"})

\* C22: the logical lines of mergeContLines joined with newlines are the
\* physical lines joined with newlines, also when the last physical line
\* ends with a backslash; a multi-line rewrite neither adds nor loses a
\* newline.
C22_MergeKeepsText ==
    /\ pc = "merged" => join(ret, "\n") = join(splitLines(arg), "\n")
    /\ (pc = "done" /\ ret.ok) => Newlines(ret.rewritten) = Newlines(arg)

\* ------------------------------------------------------------------------
\* The scanners on backslashes
\* ------------------------------------------------------------------------

EscapeHeads == {"grep ", "find . -name "}

EscapeWords ==
    {"a\\|b", "\"a\\\"|b\"", "'C:\\'", "foo\\;bar", "\\\"x", "it\\'s", "a\\>b",
     "'a\\|b'", "plain", "\"q|r\""}

EscapeTails == {"", " src", " | wc", "; ls"}

EscapeInputs == {h \o w \o t : h \in EscapeHeads, w \in EscapeWords, t \in EscapeTails}

CallShellTokenise ==
    /\ pc = "call"
    /\ ret' = shellTokenise(arg)
    /\ pc' = "tokens"
    /\ UNCHANGED <<arg, extVars>>

InitEscape == HarnessInit(EscapeInputs)

NextEscape ==
    \/ CallSplitAtShellOp
    \/ CallShellTokenise

SpecEscape == InitEscape /\ [][NextEscape]_vars

\* The position of the first operator of cmd from i on when a backslash
\* escapes the next character, 0 if there is none.
RECURSIVE UnescapedOperator(_, _, _)
UnescapedOperator(cmd, i, quote) ==
    IF i > Len(cmd) THEN 0
    ELSE LET ch == Ch(cmd, i)
         IN  IF ch = "\\" THEN UnescapedOperator(cmd, i + 2, quote)
             ELSE IF quote # ""
             THEN UnescapedOperator(cmd, i + 1, IF ch = quote THEN "" ELSE quote)
             ELSE IF ch = "\"" \/ ch = "'" THEN UnescapedOperator(cmd, i + 1, ch)
             ELSE IF ch \in {"|", ";", ">", "<"} THEN i
             ELSE IF ch = "&" /\ Ch(cmd, i + 1) = "&" THEN i
             ELSE UnescapedOperator(cmd, i + 1, "")

\* The tokens of input from i on when a backslash escapes the next
\* character: both characters stay in the token, and the escaped one
\* toggles no quote.
RECURSIVE EscapedTokens(_, _, _, _)
EscapedTokens(input, i, current, quote) ==
    IF i > Len(input) THEN (IF current # "" THEN <<current>> ELSE <<>>)
    ELSE LET ch == Ch(input, i)
         IN  IF ch = "\\"
             THEN EscapedTokens(input, i + 2, current \o ch \o Ch(input, i + 1), quote)
             ELSE IF quote # ""
             THEN IF ch = quote
                  THEN EscapedTokens(input, i + 1, current, "")
                  ELSE EscapedTokens(input, i + 1, current \o ch, quote)
             ELSE IF ch = "\"" \/ ch = "'"
             THEN EscapedTokens(input, i + 1, current, ch)
             ELSE IF ch = " " \/ ch = "\t"
             THEN (IF current # "" THEN <<current>> ELSE <<>>)
                  \o EscapedTokens(input, i + 1, "", "")
             ELSE EscapedTokens(input, i + 1, current \o ch, "")

\* C23: in splitAtShellOp and shellTokenise a backslash escapes the next
\* character, which is then neither a quote toggle nor a shell operator,
\* inside or outside quotes.
C23_BackslashEscapes ==
    /\ pc = "split" => ret = SplitAt(arg, UnescapedOperator(arg, 1, ""))
    /\ pc = "tokens" => ret = EscapedTokens(arg, 1, "", "")

\* ------------------------------------------------------------------------
\* The rule walk
\* ------------------------------------------------------------------------

\* Bodies a rule matches but does not change.
NoopBodies ==
    {"cat\ta.txt", "grep foo a b c", "grep -r", "find /tmp -type f", "find . -exec rm {} +",
     "diff\ta b", "pnpm  test", "npm  test", "npm  run build", "pnpm  tsc", "pnpm  lint",
     "docker\tps", "kubectl\tget pods", "curl\thttp://x", "wget\thttp://x",
     "python  -m pytest", "uv  pip list", "go  test", "go\tbuild", "go  vet",
     "pip\tlist", "ruff\tcheck .", "pnpm\tlist", "gh\tissue list"}

\* Bodies close to two rules, or close to one and matched by none.
NearBodies ==
    {"pnpm npx vitest", "pnpm vitest run", "pnpm playwright test", "npx tsc", "npx vue-tsc",
     "docker compose", "docker composer up", "docker compose-up", "pnpm ls", "lsof -i",
     "treex", "uv pip install x", "pip3 list", "go testing", "npm run", "npx npx tsc",
     "pytest-watch", "git", "rg", "head -5", "gh repo view", "python -m pytest.foo"}

RuleBodies == SampleBodies \cup PrefixBodies \cup NoopBodies \cup NearBodies

RulePrefixes == {"", "FOO=bar "}

\* Commands of several lines.
RuleBlocks ==
    {"git status\nls", "# note\ngit status", "cat\ta\ngrep foo a b c", "  ls -la\necho hi",
     "git status\ncat a \\", "FOO=1 cat x\n\tls", "cat a \\\n  b\nhead -5 f.txt",
     "echo hi\necho ho"}

RuleInputs == {p \o b : p \in RulePrefixes, b \in RuleBodies} \cup RuleBlocks

\* tryRewrite on the command a first call returned.
CallTryRewriteAgain ==
    /\ pc = "done"
    /\ ret.ok
    /\ arg' = ret.rewritten
    /\ ret' = tryRewrite(ret.rewritten)
    /\ pc' = "again"
    /\ UNCHANGED extVars

InitRules == HarnessInit(RuleInputs)

NextRules ==
    \/ CallTryRewrite
    \/ CallTryRewriteAgain

SpecRules == InitRules /\ [][NextRules]_vars

\* The command goes through the rule walk of the single-line engine.
IsWalked(command) ==
    ~includes(command, "\n") /\ ~alreadyRtk(command) /\ ~includes(command, "<<")

\* The indices of the rules that match body and change it.
ChangingRules(body) ==
    {i \in 1..Len(rules) : ruleMatch(rules[i], body) /\ ruleRewrite(rules[i], body) # body}

\* The least member of a non-empty set of numbers.
Least(S) == CHOOSE i \in S : \A j \in S : i <= j

\* C24: a rule that matches but returns the body unchanged produces no
\* result, the walk goes on to the following rules, and every result of
\* tryRewriteSingle and tryRewrite has a rewritten string that differs from
\* the input command.
C24_NoopRuleSkipped ==
    pc = "done" =>
        /\ ret.ok => ret.rewritten # arg
        /\ IsWalked(arg) =>
               LET sp == splitEnvPrefix(arg)
                   hits == ChangingRules(sp[2])
               IN  ret = IF hits = {} THEN Null
                         ELSE RewriteResult(sp[1] \o ruleRewrite(rules[Least(hits)], sp[2]),
                                            rules[Least(hits)])

\* The grep rule matched a body its translator refuses, and the engine
\* returned null.
C24_Witness ==
    /\ pc = "done"
    /\ arg = "FOO=bar grep foo a b c"
    /\ ruleMatch("grep/rg", "grep foo a b c")
    /\ ruleRewrite("grep/rg", "grep foo a b c") = "grep foo a b c"
    /\ ret = Null

\* C26: the engine returns null on the rewritten command of any of its
\* results, with and without an environment prefix, for one line and for
\* several, and for translated grep and find commands.
C26_RewriteIdempotent ==
    pc = "again" => ret = Null

\* The rewritten block of a prefixed cat and an indented ls was given back
\* to the engine.
C26_Witness ==
    /\ pc = "again"
    /\ arg = "FOO=1 rtk read x\n\trtk ls"
    /\ ret = Null

\* The indices of the rules whose predicate is true of body.
MatchingRules(body) == {i \in 1..Len(rules) : ruleMatch(rules[i], body)}

\* C30: at most one predicate of the rule table is true of a body, so the
\* result of the walk is the result of that one rule, whatever the order of
\* the table.
C30_PredicatesDisjoint ==
    (pc = "done" /\ ~includes(arg, "\n")) =>
        LET sp == splitEnvPrefix(arg)
            M == MatchingRules(sp[2])
        IN  /\ Cardinality(M) <= 1
            /\ IsWalked(arg) =>
                   ret = IF M = {} THEN Null
                         ELSE LET i == CHOOSE i \in M : TRUE
                              IN  ruleResult(sp[1], sp[2], rules[i], ruleRewrite(rules[i], sp[2]))

\* docker compose was rewritten by the compose rule, the one rule whose
\* predicate holds.
C30_Witness ==
    /\ pc = "done"
    /\ arg = "docker compose up -d"
    /\ ret = RewriteResult("rtk docker compose up -d", "docker compose")
    /\ Cardinality(MatchingRules(arg)) = 1

\* ------------------------------------------------------------------------
\* The extension: the balance of the statistics
\* ------------------------------------------------------------------------

\* The sum of the counts of byRule from entry i on.
RECURSIVE SumCounts(_, _)
SumCounts(byRule, i) ==
    IF i > Len(byRule) THEN 0 ELSE byRule[i][2] + SumCounts(byRule, i + 1)

\* The step is a tool_call that passes the early returns of the handler.
CountedCall ==
    /\ \E ev \in Events : ToolCall(ev)
    /\ rtkAvailable /\ enabled
    /\ event'.toolName = "bash" /\ event'.isString /\ original' # ""

\* C25: after any sequence of events total is skipped plus the sum of the
\* rule counts and no counter is negative; a counted tool_call adds one to
\* total and one to either skipped or one rule count, any other tool_call
\* changes nothing.
C25_StatsBalance ==
    /\ [](/\ stats.total = stats.skipped + SumCounts(stats.byRule, 1)
          /\ stats.total >= 0 /\ stats.skipped >= 0
          /\ \A k \in 1..Len(stats.byRule) : stats.byRule[k][2] >= 1)
    /\ [][/\ CountedCall =>
                /\ stats'.total = stats.total + 1
                /\ \/ /\ stats'.skipped = stats.skipped + 1
                      /\ stats'.byRule = stats.byRule
                   \/ /\ stats'.skipped = stats.skipped
                      /\ SumCounts(stats'.byRule, 1) = SumCounts(stats.byRule, 1) + 1
                      /\ \E k \in 1..Len(stats'.byRule) :
                             stats'.byRule[k][2] =
                                 byRuleCount(stats.byRule, stats'.byRule[k][1]) + 1
          /\ ((\E ev \in Events : ToolCall(ev)) /\ ~CountedCall) => stats' = stats]_vars

\* Three commands were counted: one passed through, two rewritten by
\* different rules.
C25_Witness ==
    /\ stats.total = 3
    /\ stats.skipped = 1
    /\ Len(stats.byRule) = 2

\* ------------------------------------------------------------------------
\* Quoted arguments in translated commands
\* ------------------------------------------------------------------------

\* The characters the splitter takes as operators.
HasOperatorChar(s) ==
    (\E c \in {"|", ";", ">", "<"} : includes(s, c)) \/ includes(s, "&&")

\* C27: when every operator character of a grep, rg or find body lies
\* inside quotes, the translated command has no operator outside quotes:
\* splitAtShellOp returns an empty tail for it.
C27_QuotedOperatorStaysQuoted ==
    (/\ pc = "done"
     /\ ret.ok
     /\ HasOperatorChar(arg)
     /\ splitAtShellOp(arg)[2] = "") =>
        splitAtShellOp(ret.rewritten)[2] = ""

\* C28: the command part of a translated grep or find command tokenises
\* to rtk, the tool name and the tokens of the original arguments, each
\* one token with the original token's value, also when an argument was
\* quoted because it holds white space.
C28_ArgumentBoundariesKept ==
    (/\ pc = "done"
     /\ ret.ok
     /\ arg \in PipeInputs
     /\ splitAtShellOp(arg)[2] = "") =>
        shellTokenise(splitAtShellOp(ret.rewritten)[1])
            = <<"rtk", "grep">> \o shellTokenise(StripGrep(arg))

\* ------------------------------------------------------------------------
\* The engine on find invocations with several positionals
\* ------------------------------------------------------------------------

SearchPaths == {"src", "lib", "./test", "'my dir'"}

PathLayouts == {"paths-name", "path-name-path", "name-paths"}

\* The arguments of a find invocation with the non-flag tokens a, b (and c,
\* when present) around its name test and further flags.
PathArgs(layout, a, b, c, name, more) ==
    IF layout = "paths-name" THEN Words(<<a, b, c, name, more>>)
    ELSE IF layout = "path-name-path" THEN Words(<<a, name, b, more, c>>)
    ELSE Words(<<name, more, a, b, c>>)

\* find invocations with two or three non-flag tokens; operands holds
\* their values.
ManyPathFinds ==
    {[cmd |-> "find " \o PathArgs(l, a, b, c, nf \o " " \o pat[1], more) \o tl[1],
      operands |-> shellTokenise(Words(<<a, b, c>>))] :
        l \in PathLayouts, a \in SearchPaths, b \in SearchPaths,
        c \in {"", "docs"}, nf \in FindNameFlags, pat \in FindPatterns,
        more \in {"", "-type f", "-maxdepth 2"}, tl \in FindTails}

InitFindPaths == HarnessInit(ManyPathFinds)

NextFindPaths == CallTryRewriteSingleOn

SpecFindPaths == InitFindPaths /\ [][NextFindPaths]_vars

\* C29: for a find command part with two or more non-flag tokens the
\* engine returns null or a command that holds every one of them.
C29_FindKeepsPositionals ==
    (pc = "done" /\ ret.ok) =>
        \A k \in 1..Len(arg.operands) :
            \E j \in 1..Len(shellTokenise(ret.rewritten)) :
                shellTokenise(ret.rewritten)[j] = arg.operands[k]

====
